---- MODULE Spec2Model ----
(***************************************************************************)
(* Polyline/arc drawing tool (LineTool), its hold timer, the completed-    *)
(* shapes collection and the point model (flatten / write point).          *)
(*                                                                         *)
(* Coordinates are integers, so every threshold test of the source         *)
(* (dist > 10, dist <= 24, dist < 2, |det| < eps) is decided exactly on    *)
(* squared distances and integer determinants.  A direction is kept as a   *)
(* primitive integer vector instead of a unit vector.  The bulge point     *)
(* returned by computeTangentArcBulge is the midpoint of the arc that      *)
(* leaves `from` along `dir` and ends at `to`; it is kept as that term     *)
(* [from, to, dir] because its coordinates are irrational in general.      *)
(***************************************************************************)
EXTENDS Integers, Sequences, FiniteSets, TLC

\* ---------------------------------------------------------------- bounds
\* points (starts and segment ends) held by all polylines together
MaxPoints == 4
\* segments of a measurement handed to the point-model functions
MaxPMSegs == 3
\* edits of completed measurements (a press or a double click on one of their
\* points, the deletion of the hovered one) in a run that starts from a stored
\* collection
MaxEdits == 1

\* ------------------------------------------------------------- constants
POINT_HIT_RADIUS == 10
CLOSE_SNAP_RADIUS == 24
DEGENERATE_DIST == 2

NoPoly == 0

Pt(px, py) == [x |-> px, y |-> py]

\* Pointer positions: three corners of a square of side 20.  Adjacent corners
\* are within CLOSE_SNAP_RADIUS of each other, opposite corners are not;
\* distinct corners are farther apart than POINT_HIT_RADIUS.
Pos == {Pt(0, 0), Pt(20, 0), Pt(20, 20)}

\* -------------------------------------------------------------- geometry
Abs(n) == IF n < 0 THEN -n ELSE n

Sub(a, b) == Pt(a.x - b.x, a.y - b.y)
Dot(a, b) == a.x * b.x + a.y * b.y
Cross(a, b) == a.x * b.y - a.y * b.x

RECURSIVE Gcd(_, _)
Gcd(a, b) == IF b = 0 THEN a ELSE Gcd(b, a % b)

\* v / |v| of the source, as the primitive integer vector of the same direction
Unit(v) ==
  LET g == Gcd(Abs(v.x), Abs(v.y)) IN Pt(v.x \div g, v.y \div g)

\* rounding division (nearest integer), d > 0
RoundDiv(n, d) == (2 * n + d) \div (2 * d)

distSq(a, b) == (b.x - a.x) * (b.x - a.x) + (b.y - a.y) * (b.y - a.y)

pointNear(p, target, threshold) == distSq(p, target) <= threshold * threshold

IsPoint(b) == DOMAIN b = {"x", "y"}

\* a centre whose y is taken from the x formula
circumscribedCircle_sameRow(p1, p2, p3) ==
  LET s1 == p1.x * p1.x + p1.y * p1.y
      s2 == p2.x * p2.x + p2.y * p2.y
      s3 == p3.x * p3.x + p3.y * p3.y
  IN [D  |-> 2 * (p1.x * (p2.y - p3.y) + p2.x * (p3.y - p1.y) + p3.x * (p1.y - p2.y)),
      ux |-> s1 * (p2.y - p3.y) + s2 * (p3.y - p1.y) + s3 * (p1.y - p2.y),
      uy |-> s1 * (p2.y - p3.y) + s2 * (p3.y - p1.y) + s3 * (p1.y - p2.y)]

\* D = 0 stands for the null result (collinear); the centre is (ux/D, uy/D)
circumscribedCircle(p1, p2, p3) ==
  LET s1 == p1.x * p1.x + p1.y * p1.y
      s2 == p2.x * p2.x + p2.y * p2.y
      s3 == p3.x * p3.x + p3.y * p3.y
  IN [D  |-> 2 * (p1.x * (p2.y - p3.y) + p2.x * (p3.y - p1.y) + p3.x * (p1.y - p2.y)),
      ux |-> s1 * (p2.y - p3.y) + s2 * (p3.y - p1.y) + s3 * (p1.y - p2.y),
      uy |-> s1 * (p3.x - p2.x) + s2 * (p1.x - p3.x) + s3 * (p2.x - p1.x)]

\* NoBulge is `undefined`; a bulge is a one-element sequence
NoBulge == <<>>

Seg(e, b) == [end |-> e, bulge |-> b]

\* a bulge computed although the end lies on the tangent line
computeTangentArcBulge_noLineTest(segStart, segEnd, tangentDir) ==
  LET dx == segStart.x - segEnd.x
      dy == segStart.y - segEnd.y
  IN IF dx * dx + dy * dy = 0 THEN NoBulge
     ELSE <<[from |-> segStart, to |-> segEnd, dir |-> tangentDir]>>

\* null is NoBulge
computeTangentArcBulge(segStart, segEnd, tangentDir) ==
  LET nx == -tangentDir.y
      ny == tangentDir.x
      dx == segStart.x - segEnd.x
      dy == segStart.y - segEnd.y
  IN IF dx * dx + dy * dy = 0 THEN NoBulge
     ELSE IF nx * dx + ny * dy = 0 THEN NoBulge
     ELSE <<[from |-> segStart, to |-> segEnd, dir |-> tangentDir]>>

getPrevTangent(m, segIdx) ==
  IF segIdx = 0 THEN Pt(1, 0)
  ELSE
    LET prevSeg == m.segments[segIdx]
        prevStart == IF segIdx >= 2 THEN m.segments[segIdx - 1].end ELSE m.start
        chord == Sub(prevSeg.end, prevStart)
        v == IF prevSeg.bulge = NoBulge THEN chord
             ELSE LET b == prevSeg.bulge[1] IN
                  IF IsPoint(b)
                  THEN LET c == circumscribedCircle(prevStart, b, prevSeg.end) IN
                       IF c.D = 0 THEN chord
                       ELSE \* radius at end, rotated by the sign of the sweep
                            Pt(-(prevSeg.end.y * c.D - c.uy), prevSeg.end.x * c.D - c.ux)
                  ELSE \* tangent arc: the end tangent mirrors the start tangent in the chord
                       LET d == Sub(b.to, b.from) IN
                       Pt(2 * Dot(b.dir, d) * d.x - Dot(d, d) * b.dir.x,
                          2 * Dot(b.dir, d) * d.y - Dot(d, d) * b.dir.y)
    IN IF v.x = 0 /\ v.y = 0 THEN Pt(1, 0) ELSE Unit(v)

computeArcHoldAction(m, mousePos) ==
  LET segs == m.segments IN
  IF Len(segs) = 0 THEN [addNewSegment |-> FALSE, newSegmentEnd |-> mousePos]
  ELSE LET lastSeg == segs[Len(segs)]
           prevEnd == IF Len(segs) >= 2 THEN segs[Len(segs) - 1].end ELSE m.start
       IN [addNewSegment |-> distSq(prevEnd, lastSeg.end) > POINT_HIT_RADIUS * POINT_HIT_RADIUS,
           newSegmentEnd |-> mousePos]

SetLast(m, seg) == [m EXCEPT !.segments[Len(m.segments)] = seg]

\* a held arc whose end stays where the click put it
updateArcSegment_endFixed(m, mousePos, isClosing) ==
  IF Len(m.segments) = 0 THEN m
  ELSE LET n == Len(m.segments)
           lastSeg == m.segments[n]
       IN IF isClosing THEN SetLast(m, Seg(lastSeg.end, <<mousePos>>))
          ELSE LET segStart == IF n >= 2 THEN m.segments[n - 1].end ELSE m.start
                   tangentDir == getPrevTangent(m, n - 1)
               IN SetLast(m, Seg(lastSeg.end,
                                 computeTangentArcBulge(segStart, mousePos, tangentDir)))

updateArcSegment(m, mousePos, isClosing) ==
  IF Len(m.segments) = 0 THEN m
  ELSE LET n == Len(m.segments)
           lastSeg == m.segments[n]
       IN IF isClosing THEN SetLast(m, Seg(lastSeg.end, <<mousePos>>))
          ELSE LET segStart == IF n >= 2 THEN m.segments[n - 1].end ELSE m.start
                   tangentDir == getPrevTangent(m, n - 1)
               IN SetLast(m, Seg(mousePos, computeTangentArcBulge(segStart, mousePos, tangentDir)))

shouldCloseSnap(m, mousePos, shiftHeld, isClosing) ==
  /\ ~shiftHeld
  /\ ~isClosing
  /\ Len(m.segments) >= 2
  /\ pointNear(mousePos, m.start, CLOSE_SNAP_RADIUS)

\* a close snap that leaves the held arc where the pointer put it
snapArcToClose_none(m) == m

snapArcToClose(m) ==
  IF Len(m.segments) = 0 THEN m
  ELSE LET n == Len(m.segments)
           segStart == IF n >= 2 THEN m.segments[n - 1].end ELSE m.start
           tangentDir == getPrevTangent(m, n - 1)
       IN SetLast(m, Seg(m.start, computeTangentArcBulge(segStart, m.start, tangentDir)))

Pop(s) == SubSeq(s, 1, Len(s) - 1)

\* finalizeArc with the two checks in the other order
finalizeArc_degenerateFirst(m, shiftHeld, wasNewSegment) ==
  LET n == Len(m.segments) IN
  IF /\ wasNewSegment
     /\ n >= 2
     /\ distSq(m.segments[n - 1].end, m.segments[n].end) < DEGENERATE_DIST * DEGENERATE_DIST
  THEN [m |-> [m EXCEPT !.segments = Pop(m.segments)],
        closed |-> FALSE, removedDegenerate |-> TRUE]
  ELSE IF n >= 2 /\ ~shiftHeld /\ pointNear(m.segments[n].end, m.start, CLOSE_SNAP_RADIUS)
       THEN [m |-> [SetLast(m, Seg(m.start, m.segments[n].bulge)) EXCEPT !.closed = TRUE],
             closed |-> TRUE, removedDegenerate |-> FALSE]
       ELSE [m |-> m, closed |-> FALSE, removedDegenerate |-> FALSE]

\* result: the polyline after the call and the returned flags
finalizeArc(m, shiftHeld, wasNewSegment) ==
  LET n == Len(m.segments) IN
  IF n >= 2 /\ ~shiftHeld /\ pointNear(m.segments[n].end, m.start, CLOSE_SNAP_RADIUS)
  THEN [m |-> [SetLast(m, Seg(m.start, m.segments[n].bulge)) EXCEPT !.closed = TRUE],
        closed |-> TRUE, removedDegenerate |-> FALSE]
  ELSE IF /\ wasNewSegment
          /\ n >= 2
          /\ distSq(m.segments[n - 1].end, m.segments[n].end) < DEGENERATE_DIST * DEGENERATE_DIST
       THEN [m |-> [m EXCEPT !.segments = Pop(m.segments)],
             closed |-> FALSE, removedDegenerate |-> TRUE]
       ELSE [m |-> m, closed |-> FALSE, removedDegenerate |-> FALSE]

\* tan(0.087) as a fraction: the angle test |angle| < SNAP_THRESHOLD on lines
SnapTanNum == 8722
SnapTanDen == 100000

NoSnap == <<>>

\* result: <<>> when snapType is null, else the snapped point and its type
computeSnap(from, to, tangentDir) ==
  LET d == Sub(to, from)
      \* atan2(0, 0) = 0: a zero move is tested as the direction (1, 0)
      a == IF d.x = 0 /\ d.y = 0 THEN Pt(1, 0) ELSE d
      c == Abs(Cross(a, tangentDir))
      o == Abs(Dot(a, tangentDir))
      perp == Pt(-tangentDir.y, tangentDir.x)
      tt == Dot(tangentDir, tangentDir)
      proj(dir) == Pt(from.x + RoundDiv(Dot(d, dir) * dir.x, tt),
                      from.y + RoundDiv(Dot(d, dir) * dir.y, tt))
  IN IF c * SnapTanDen < SnapTanNum * o
     THEN <<[snapped |-> proj(tangentDir), snapType |-> "tangent"]>>
     ELSE IF o * SnapTanDen < SnapTanNum * c
          THEN <<[snapped |-> proj(perp), snapType |-> "perpendicular"]>>
          ELSE NoSnap


\* ------------------------------------------------------------------ state
VARIABLES
  polys,              \* the PolylineMeasurement objects created so far; the id is the index
  activeMeasurement,  \* LineTool.activeMeasurement (NoPoly = null)
  isHoldingForArc,    \* LineTool.isHoldingForArc
  arcDragTimeout,     \* the pending setTimeout callback with its captured mRef and ctx
  isClosingSegment,   \* LineTool.isClosingSegment
  arcIsNewSegment,    \* LineTool.arcIsNewSegment
  currentSnap,        \* LineTool.currentSnap (NoSnap = null)
  closeSnapActive,    \* LineTool.closeSnapActive
  measurements,       \* ToolManager.measurements, as ids in insertion order
  mousePos,           \* ToolManager.mousePos
  buttonDown,         \* the host delivers mouse-down and mouse-up alternately
  hist,               \* history of the current press, for stating the properties
  tm,                 \* ToolManager's drag, hover and selection fields
  pm                  \* the measurement under test of the point-model specification

vars == <<polys, activeMeasurement, isHoldingForArc, arcDragTimeout, isClosingSegment,
          arcIsNewSegment, currentSnap, closeSnapActive, measurements, mousePos,
          buttonDown, hist, tm, pm>>

toolVars == <<polys, activeMeasurement, isHoldingForArc, arcDragTimeout, isClosingSegment,
              arcIsNewSegment, currentSnap, closeSnapActive, measurements, mousePos,
              buttonDown, hist, tm>>

NoTimeout == <<>>
NoLoc == <<>>
NoHit == <<>>
NoPoint == <<>>
NoIdx == -1

DRAG_THRESHOLD == 3

Polyline(s, segs, c) == [kind |-> "polyline", start |-> s, segments |-> segs, closed |-> c]

\* click, poly, segsBefore: the last mouse-down, its polyline and that polyline's
\* segments before it; point: the completed point it hit; keyed: a key or a
\* deactivation arrived since; newSeg: the index of the segment its timer
\* appended; last: what the latest step did
HistInit == [click |-> "none", poly |-> NoPoly, segsBefore |-> <<>>, point |-> NoIdx,
             keyed |-> FALSE, newSeg |-> 0, last |-> "none"]

PMInit == [m |-> Polyline(Pt(0, 0), <<>>, FALSE), before |-> Polyline(Pt(0, 0), <<>>, FALSE),
           op |-> "none", idx |-> 0, p |-> Pt(0, 0), pts |-> <<>>, loc |-> NoLoc,
           hit |-> NoHit, geo |-> <<>>,
           sync |-> [saveVersion |-> 0, lastSyncedVersion |-> 0,
                     hashDebounceTimeout |-> FALSE, hashUpdateInFlight |-> FALSE,
                     encoded |-> 0, hash |-> 0]]

\* dragInfo, dragStartPos and dragCloseSnapPoint are null or one value;
\* editsLeft is the number of edits of completed measurements the run may
\* still make: none in a run that starts empty and explores drawing
TMInit == [editsLeft |-> 0, dragInfo |-> NoHit, isDragging |-> FALSE, dragCloseSnapPoint |-> NoPoint,
           hoveredMeasurementId |-> NoPoly, hoveredPointIdx |-> NoIdx,
           selectedMeasurementId |-> NoPoly, selectedPointIdx |-> NoIdx,
           dragPending |-> FALSE, dragStartPos |-> NoPoint]

ToolInit ==
  /\ polys = <<>>
  /\ activeMeasurement = NoPoly
  /\ isHoldingForArc = FALSE
  /\ arcDragTimeout = NoTimeout
  /\ isClosingSegment = FALSE
  /\ arcIsNewSegment = FALSE
  /\ currentSnap = NoSnap
  /\ closeSnapActive = FALSE
  /\ measurements = <<>>
  /\ mousePos = Pt(0, 0)
  /\ buttonDown = FALSE
  /\ hist = HistInit
  /\ tm = TMInit

Init == ToolInit /\ pm = PMInit

Quiet == [hist EXCEPT !.last = "none"]
Keyed == [hist EXCEPT !.last = "none", !.keyed = TRUE]

RECURSIVE TotalPoints(_)
TotalPoints(ps) ==
  IF ps = <<>> THEN 0 ELSE 1 + Len(ps[1].segments) + TotalPoints(Tail(ps))

\* a handoff that the coordinator drops
processActions_dropped(id) == measurements' = measurements

\* ToolManager.processActions with completeMeasurement = the polyline id
processActions(id) == measurements' = Append(measurements, id)

\* ------------------------------------------------------------ hit testing
\* for (const seg of m.segments) { if (seg.bulge) pts.push(seg.bulge); pts.push(seg.end); }
RECURSIVE segmentPoints(_)
segmentPoints(segs) ==
  IF segs = <<>> THEN <<>>
  ELSE segs[1].bulge \o <<segs[1].end>> \o segmentPoints(Tail(segs))

getMeasurementPoints(m) ==
  IF m.kind = "polyline" THEN <<m.start>> \o segmentPoints(m.segments)
  ELSE IF m.kind = "rectangle" THEN <<m.points[1], m.points[2]>>
  ELSE <<m.center, Pt(m.center.x + m.radiusPx, m.center.y)>>

\* Math.sqrt, exact on the perfect squares the circle inputs produce
Sqrt(n) == CHOOSE r \in 0..n : r * r <= n /\ (r + 1) * (r + 1) > n

\* a write loop that counts no slot for a bulge
RECURSIVE setSegmentPoint_noBulgeSlot(_, _, _, _)
setSegmentPoint_noBulgeSlot(segs, ci, idx, p) ==
  IF segs = <<>> THEN <<>>
  ELSE IF ci = idx THEN <<Seg(p, segs[1].bulge)>> \o Tail(segs)
       ELSE <<segs[1]>> \o setSegmentPoint_noBulgeSlot(Tail(segs), ci + 1, idx, p)

\* the loop of setMeasurementPoint; ci is the flat index of the next point
RECURSIVE setSegmentPoint(_, _, _, _)
setSegmentPoint(segs, ci, idx, p) ==
  IF segs = <<>> THEN <<>>
  ELSE LET seg == segs[1]
           ce == IF seg.bulge # NoBulge THEN ci + 1 ELSE ci
       IN IF seg.bulge # NoBulge /\ ci = idx
          THEN <<Seg(seg.end, <<p>>)>> \o Tail(segs)
          ELSE IF ce = idx
               THEN <<Seg(p, seg.bulge)>> \o Tail(segs)
               ELSE <<seg>> \o setSegmentPoint(Tail(segs), ce + 1, idx, p)

\* a write to m.points[idx] with idx = points.length extends the array
setMeasurementPoint(m, idx, p) ==
  IF m.kind = "polyline"
  THEN IF idx = 0 THEN [m EXCEPT !.start = p]
       ELSE [m EXCEPT !.segments = setSegmentPoint(m.segments, 1, idx, p)]
  ELSE IF m.kind = "rectangle"
  THEN IF idx < Len(m.points) THEN [m EXCEPT !.points[idx + 1] = p]
       ELSE [m EXCEPT !.points = Append(m.points, p)]
  ELSE IF idx = 0 THEN [m EXCEPT !.center = p]
       ELSE IF idx = 1 THEN [m EXCEPT !.radiusPx = Sqrt(distSq(p, m.center))]
       ELSE m

\* an identify loop that does not advance past a bulge
RECURSIVE identifySegmentPoint_noAdvance(_, _, _, _)
identifySegmentPoint_noAdvance(segs, si, ci, idx) ==
  IF segs = <<>> THEN NoLoc
  ELSE IF segs[1].bulge # NoBulge /\ ci = idx
       THEN <<[type |-> "bulge", segIndex |-> si]>>
       ELSE IF ci = idx
            THEN <<[type |-> "end", segIndex |-> si]>>
            ELSE identifySegmentPoint_noAdvance(Tail(segs), si + 1, ci + 1, idx)

\* the loop of identifyPolylinePoint; si is the index of segs[1] in m.segments
RECURSIVE identifySegmentPoint(_, _, _, _)
identifySegmentPoint(segs, si, ci, idx) ==
  IF segs = <<>> THEN NoLoc
  ELSE LET seg == segs[1]
           ce == IF seg.bulge # NoBulge THEN ci + 1 ELSE ci
       IN IF seg.bulge # NoBulge /\ ci = idx
          THEN <<[type |-> "bulge", segIndex |-> si]>>
          ELSE IF ce = idx
               THEN <<[type |-> "end", segIndex |-> si]>>
               ELSE identifySegmentPoint(Tail(segs), si + 1, ce + 1, idx)

\* null is NoLoc; segIndex counts from 0 as in the source
identifyPolylinePoint(m, idx) ==
  IF idx = 0 THEN <<[type |-> "start"]>>
  ELSE identifySegmentPoint(m.segments, 0, 1, idx)

\* a splice that always drops the last element
Splice1_last(segs, si) == SubSeq(segs, 1, Len(segs) - 1)

\* segs.splice(si, 1)
Splice1(segs, si) == SubSeq(segs, 1, si) \o SubSeq(segs, si + 2, Len(segs))

removePolylinePoint(m, idx) ==
  LET info == identifyPolylinePoint(m, idx) IN
  IF info = NoLoc THEN m
  ELSE IF info[1].type = "bulge"
  THEN [m EXCEPT !.segments[info[1].segIndex + 1].bulge = NoBulge]
  ELSE IF info[1].type = "start"
  THEN IF Len(m.segments) = 0 THEN m
       ELSE [m EXCEPT !.start = m.segments[1].end, !.segments = Splice1(m.segments, 0)]
  ELSE [m EXCEPT !.segments = Splice1(m.segments, info[1].segIndex)]

\* The first point within POINT_HIT_RADIUS of pos, searching the collection
\* from its last measurement; null is NoHit.  The position of a tangent-arc
\* bulge is not represented, so such a point is never reported as hit.
\* a scan from the oldest shape on
findHoveredPoint_forward(ms, pos) ==
  LET hits(m) == LET pts == getMeasurementPoints(m) IN
                 {j \in 1..Len(pts) : IsPoint(pts[j]) /\ pointNear(pos, pts[j], POINT_HIT_RADIUS)}
      hitM == {i \in 1..Len(ms) : hits(polys[ms[i]]) # {}}
  IN IF hitM = {} THEN NoHit
     ELSE LET i == CHOOSE k \in hitM : \A l \in hitM : k <= l
              h == hits(polys[ms[i]])
              j == CHOOSE k \in h : \A l \in h : k <= l
          IN <<[measurementId |-> ms[i], pointIndex |-> j - 1]>>

findHoveredPoint(ms, pos) ==
  LET hits(m) == LET pts == getMeasurementPoints(m) IN
                 {j \in 1..Len(pts) :
                    IsPoint(pts[j]) /\ pointNear(pos, pts[j], POINT_HIT_RADIUS)}
      hitM == {i \in 1..Len(ms) : hits(polys[ms[i]]) # {}}
  IN IF hitM = {} THEN NoHit
     ELSE LET i == CHOOSE k \in hitM : \A l \in hitM : l <= k
              h == hits(polys[ms[i]])
              j == CHOOSE k \in h : \A l \in h : k <= l
          IN <<[measurementId |-> ms[i], pointIndex |-> j - 1]>>

\* ------------------------------------------------------- LineTool handlers
\* a click near start that closes whether or not shift is held
clickCloses_shiftIgnored(m, pos, shiftHeld) ==
  Len(m.segments) >= 2 /\ pointNear(pos, m.start, CLOSE_SNAP_RADIUS)

\* onClick: check for close (need >= 2 segments, Shift bypasses)
clickCloses(m, pos, shiftHeld) ==
  /\ ~shiftHeld
  /\ Len(m.segments) >= 2
  /\ pointNear(pos, m.start, CLOSE_SNAP_RADIUS)

\* LineTool.onClick with the context of the mouse-down; the pointer is where
\* the last move left it
onClick(shiftHeld) ==
  LET pos == mousePos IN
  /\ ~buttonDown
  /\ buttonDown' = TRUE
  /\ IF activeMeasurement = NoPoly
     THEN /\ TotalPoints(polys) + 1 <= MaxPoints
          /\ polys' = Append(polys, Polyline(pos, <<>>, FALSE))
          /\ activeMeasurement' = Len(polys) + 1
          /\ hist' = [click |-> "start", poly |-> Len(polys) + 1, segsBefore |-> <<>>,
                      point |-> NoIdx, keyed |-> FALSE, newSeg |-> 0, last |-> "click"]
          /\ UNCHANGED <<isClosingSegment, arcDragTimeout>>
     ELSE LET m == polys[activeMeasurement]
              snapPos == IF currentSnap # NoSnap THEN currentSnap[1].snapped ELSE pos
              closing == clickCloses(m, pos, shiftHeld)
              m1 == [m EXCEPT !.segments =
                       Append(@, Seg(IF closing THEN m.start ELSE snapPos, NoBulge))]
              timerAdds == ~closing /\ computeArcHoldAction(m1, pos).addNewSegment
          IN \* a normal click leaves room for the segment its timer would append
             /\ TotalPoints(polys) + (IF timerAdds THEN 2 ELSE 1) <= MaxPoints
             /\ polys' = [polys EXCEPT ![activeMeasurement] = m1]
             /\ isClosingSegment' = (closing \/ isClosingSegment)
             /\ arcDragTimeout' = <<[closing |-> closing, mRef |-> activeMeasurement,
                                     mousePos |-> mousePos]>>
             /\ hist' = [click |-> IF closing THEN "closing" ELSE "normal",
                         poly |-> activeMeasurement, segsBefore |-> m.segments,
                         point |-> NoIdx, keyed |-> FALSE, newSeg |-> 0, last |-> "click"]
             /\ UNCHANGED activeMeasurement
  /\ UNCHANGED <<isHoldingForArc, arcIsNewSegment, currentSnap, closeSnapActive,
                 measurements, mousePos, pm>>

\* the callback passed to setTimeout(..., 200) in onClick
TimerFire ==
  /\ arcDragTimeout # NoTimeout
  /\ LET t == arcDragTimeout[1]
         action == computeArcHoldAction(polys[t.mRef], t.mousePos)
         add == ~t.closing /\ ~isClosingSegment /\ action.addNewSegment
     IN /\ isHoldingForArc' = TRUE
        /\ arcDragTimeout' = NoTimeout
        /\ polys' = IF add
                    THEN [polys EXCEPT ![t.mRef].segments =
                            Append(@, Seg(action.newSegmentEnd, NoBulge))]
                    ELSE polys
        /\ arcIsNewSegment' = (add \/ arcIsNewSegment)
        /\ hist' = [hist EXCEPT !.last = "timer",
                                !.newSeg = IF add THEN Len(polys[t.mRef].segments) + 1 ELSE @]
  /\ UNCHANGED <<activeMeasurement, isClosingSegment, currentSnap, closeSnapActive,
                 measurements, mousePos, buttonDown, pm>>

\* a close snap that leaves the tangent/perpendicular snap in place
closeSnapOverrides_kept(close, snap) == snap

\* onMouseMove: if (this.closeSnapActive) { this.currentSnap = null; }
closeSnapOverrides(close, snap) == IF close THEN NoSnap ELSE snap

\* a move that reshapes the last segment whether or not an arc is held
arcDragUpdates_always(holding, m) == Len(m.segments) > 0

\* onMouseMove: if (this.isHoldingForArc && this.activeMeasurement.segments.length > 0)
arcDragUpdates(holding, m) == holding /\ Len(m.segments) > 0

\* LineTool.onMouseMove, after ToolManager.handleMouseMove stored the position
onMouseMove(pos, shiftHeld) ==
  /\ mousePos' = pos
  /\ hist' = Quiet
  /\ IF activeMeasurement = NoPoly
     THEN UNCHANGED <<polys, currentSnap, closeSnapActive>>
     ELSE LET m0 == polys[activeMeasurement]
              m1 == IF arcDragUpdates(isHoldingForArc, m0)
                    THEN updateArcSegment(m0, pos, isClosingSegment)
                    ELSE m0
              snapping == /\ ~isHoldingForArc /\ ~shiftHeld /\ ~isClosingSegment
                          /\ Len(m1.segments) > 0
              lastEndpoint == m1.segments[Len(m1.segments)].end
              tangent == getPrevTangent(m1, Len(m1.segments))
              snap == computeSnap(lastEndpoint, pos, tangent)
              snap1 == IF snapping /\ snap # NoSnap
                       THEN <<[snapped |-> snap[1].snapped, snapType |-> snap[1].snapType,
                               from |-> lastEndpoint,
                               direction |-> IF snap[1].snapType = "tangent" THEN tangent
                                             ELSE Pt(-tangent.y, tangent.x)]>>
                       ELSE NoSnap
              close == shouldCloseSnap(m1, pos, shiftHeld, isClosingSegment)
              m2 == IF close /\ isHoldingForArc THEN snapArcToClose(m1) ELSE m1
          IN /\ polys' = [polys EXCEPT ![activeMeasurement] = m2]
             /\ closeSnapActive' = close
             /\ currentSnap' = closeSnapOverrides(close, snap1)
  /\ UNCHANGED <<activeMeasurement, isHoldingForArc, arcDragTimeout, isClosingSegment,
                 arcIsNewSegment, measurements, buttonDown, pm>>

\* a mouse-up that leaves the timer running
clearArcDragTimeout_kept(timeout) == timeout

\* onMouseUp: if (this.arcDragTimeout) { clearTimeout(...); this.arcDragTimeout = null; }
clearArcDragTimeout(timeout) == NoTimeout

\* a release that keeps the straight closing segment
popStraightClosing_never(segs) == segs

\* onMouseUp: the closing segment is removed if it has no bulge
popStraightClosing(segs) ==
  IF Len(segs) > 0 /\ segs[Len(segs)].bulge = NoBulge THEN Pop(segs) ELSE segs

\* the trailing segment is a timer-made segment that the release finds degenerate
Degenerate(m) ==
  /\ Len(m.segments) >= 2
  /\ distSq(m.segments[Len(m.segments) - 1].end, m.segments[Len(m.segments)].end)
       < DEGENERATE_DIST * DEGENERATE_DIST

onMouseUp(shiftHeld) ==
  /\ buttonDown
  /\ buttonDown' = FALSE
  /\ arcDragTimeout' = clearArcDragTimeout(arcDragTimeout)
  /\ IF isClosingSegment /\ activeMeasurement # NoPoly
     THEN LET m == polys[activeMeasurement]
              segs == popStraightClosing(m.segments)
          IN /\ isHoldingForArc' = FALSE
             /\ isClosingSegment' = FALSE
             /\ polys' = [polys EXCEPT ![activeMeasurement] = Polyline(m.start, segs, TRUE)]
             /\ activeMeasurement' = NoPoly
             /\ currentSnap' = NoSnap
             /\ processActions(activeMeasurement)
             /\ hist' = [hist EXCEPT !.last = "upClosing"]
             /\ UNCHANGED arcIsNewSegment
     ELSE IF isHoldingForArc /\ activeMeasurement # NoPoly
     THEN LET result == finalizeArc(polys[activeMeasurement], shiftHeld, arcIsNewSegment)
          IN /\ isHoldingForArc' = FALSE
             /\ arcIsNewSegment' = FALSE
             /\ polys' = [polys EXCEPT ![activeMeasurement] = result.m]
             /\ IF result.closed
                THEN /\ activeMeasurement' = NoPoly
                     /\ currentSnap' = NoSnap
                     /\ processActions(activeMeasurement)
                ELSE UNCHANGED <<activeMeasurement, currentSnap, measurements>>
             /\ hist' = [hist EXCEPT !.last = IF result.closed
                                               THEN IF /\ arcIsNewSegment
                                                       /\ Degenerate(polys[activeMeasurement])
                                                    THEN "upArcCloseDegenerate"
                                                    ELSE "upArcClose"
                                               ELSE IF result.removedDegenerate
                                                    THEN "upDegenerate"
                                                    ELSE "upArc"]
             /\ UNCHANGED isClosingSegment
     ELSE /\ hist' = [hist EXCEPT !.last = IF arcDragTimeout # NoTimeout THEN "upCancel"
                                            ELSE "none"]
          /\ UNCHANGED <<polys, activeMeasurement, isHoldingForArc, isClosingSegment,
                         arcIsNewSegment, currentSnap, measurements>>
  /\ UNCHANGED <<closeSnapActive, mousePos, pm>>

\* the browser raises dblclick after the second mouse-up
onDblClick ==
  /\ ~buttonDown
  /\ hist' = Quiet
  /\ IF activeMeasurement # NoPoly /\ Len(polys[activeMeasurement].segments) >= 1
     THEN /\ activeMeasurement' = NoPoly
          /\ currentSnap' = NoSnap
          /\ processActions(activeMeasurement)
     ELSE UNCHANGED <<activeMeasurement, currentSnap, measurements>>
  /\ UNCHANGED <<polys, isHoldingForArc, arcDragTimeout, isClosingSegment, arcIsNewSegment,
                 closeSnapActive, mousePos, buttonDown, pm>>

\* an Escape that keeps a polyline without segments active
onKeyDownEscape_keepsStart ==
  /\ hist' = Keyed
  /\ IF activeMeasurement # NoPoly /\ Len(polys[activeMeasurement].segments) >= 1
     THEN /\ activeMeasurement' = NoPoly
          /\ currentSnap' = NoSnap
          /\ processActions(activeMeasurement)
     ELSE UNCHANGED <<activeMeasurement, currentSnap, measurements>>
  /\ UNCHANGED <<polys, isHoldingForArc, arcDragTimeout, isClosingSegment, arcIsNewSegment,
                 closeSnapActive, mousePos, buttonDown, pm>>

onKeyDownEscape ==
  /\ hist' = Keyed
  /\ IF activeMeasurement # NoPoly
     THEN /\ activeMeasurement' = NoPoly
          /\ currentSnap' = NoSnap
          /\ IF Len(polys[activeMeasurement].segments) >= 1
             THEN processActions(activeMeasurement)
             ELSE UNCHANGED measurements
     ELSE UNCHANGED <<activeMeasurement, currentSnap, measurements>>
  /\ UNCHANGED <<polys, isHoldingForArc, arcDragTimeout, isClosingSegment, arcIsNewSegment,
                 closeSnapActive, mousePos, buttonDown, pm>>

\* an Enter that hands the polyline off and keeps it active
onKeyDownEnter_keepsActive ==
  /\ hist' = Keyed
  /\ IF activeMeasurement # NoPoly /\ Len(polys[activeMeasurement].segments) >= 1
     THEN /\ currentSnap' = NoSnap
          /\ processActions(activeMeasurement)
     ELSE UNCHANGED <<currentSnap, measurements>>
  /\ UNCHANGED <<polys, activeMeasurement, isHoldingForArc, arcDragTimeout, isClosingSegment,
                 arcIsNewSegment, closeSnapActive, mousePos, buttonDown, pm>>

onKeyDownEnter ==
  /\ hist' = Keyed
  /\ IF activeMeasurement # NoPoly /\ Len(polys[activeMeasurement].segments) >= 1
     THEN /\ activeMeasurement' = NoPoly
          /\ currentSnap' = NoSnap
          /\ processActions(activeMeasurement)
     ELSE UNCHANGED <<activeMeasurement, currentSnap, measurements>>
  /\ UNCHANGED <<polys, isHoldingForArc, arcDragTimeout, isClosingSegment, arcIsNewSegment,
                 closeSnapActive, mousePos, buttonDown, pm>>

\* Delete and Backspace take the same branch
onKeyDownBackspace ==
  /\ hist' = Keyed
  /\ IF activeMeasurement # NoPoly /\ Len(polys[activeMeasurement].segments) > 0
     THEN polys' = [polys EXCEPT ![activeMeasurement].segments = Pop(@)]
     ELSE UNCHANGED polys
  /\ UNCHANGED <<activeMeasurement, isHoldingForArc, arcDragTimeout, isClosingSegment,
                 arcIsNewSegment, currentSnap, closeSnapActive, measurements, mousePos,
                 buttonDown, pm>>

\* a deactivation that leaves the hold timer running
onDeactivate_timerKept ==
  /\ hist' = Keyed
  /\ IF activeMeasurement = NoPoly
     THEN UNCHANGED <<activeMeasurement, currentSnap, closeSnapActive, isClosingSegment,
                      isHoldingForArc, arcIsNewSegment, measurements>>
     ELSE /\ IF Len(polys[activeMeasurement].segments) >= 1
             THEN processActions(activeMeasurement)
             ELSE UNCHANGED measurements
          /\ activeMeasurement' = NoPoly
          /\ currentSnap' = NoSnap
          /\ closeSnapActive' = FALSE
          /\ isClosingSegment' = FALSE
          /\ isHoldingForArc' = FALSE
          /\ arcIsNewSegment' = FALSE
  /\ UNCHANGED <<polys, arcDragTimeout, mousePos, buttonDown, pm>>

\* LineTool.finalize, reached through onDeactivate; the tool is activated again
\* at once (ToolManager.clearAll, or a switch away and back)
onDeactivate ==
  /\ hist' = Keyed
  /\ IF activeMeasurement = NoPoly
     THEN UNCHANGED <<activeMeasurement, currentSnap, closeSnapActive, isClosingSegment,
                      isHoldingForArc, arcIsNewSegment, arcDragTimeout, measurements>>
     ELSE /\ IF Len(polys[activeMeasurement].segments) >= 1
             THEN processActions(activeMeasurement)
             ELSE UNCHANGED measurements
          /\ activeMeasurement' = NoPoly
          /\ currentSnap' = NoSnap
          /\ closeSnapActive' = FALSE
          /\ isClosingSegment' = FALSE
          /\ isHoldingForArc' = FALSE
          /\ arcIsNewSegment' = FALSE
          /\ arcDragTimeout' = NoTimeout
  /\ UNCHANGED <<polys, mousePos, buttonDown, pm>>

\* LineTool.getDrawState; null is the empty sequence
getDrawState ==
  [effectiveMousePos |->
     IF activeMeasurement = NoPoly \/ isClosingSegment THEN NoPoint
     ELSE IF closeSnapActive THEN <<polys[activeMeasurement].start>>
     ELSE IF currentSnap # NoSnap THEN <<currentSnap[1].snapped>>
     ELSE <<mousePos>>,
   closeSnapRing |->
     IF activeMeasurement # NoPoly /\ ~isClosingSegment /\ closeSnapActive
     THEN <<polys[activeMeasurement].start>> ELSE NoPoint,
   snapGuide |->
     IF currentSnap # NoSnap
     THEN <<[from |-> currentSnap[1].from, direction |-> currentSnap[1].direction,
             snapType |-> currentSnap[1].snapType]>>
     ELSE NoSnap]

\* -------------------------------------------------- ToolManager handlers
\* panX = panY = 0 and no pan gesture is in progress: screenToWorld leaves a
\* position as it is, and the distance on screen is the distance in the world
Selected == tm.selectedMeasurementId # NoPoly /\ tm.selectedPointIdx # NoIdx

clearSelection(t) == [t EXCEPT !.selectedMeasurementId = NoPoly, !.selectedPointIdx = NoIdx]

\* this.measurements.filter((m) => m.id !== id)
Without(ms, id) == SelectSeq(ms, LAMBDA x : x # id)

\* a pending drag that any movement promotes
dragPromoted_always(startPos, pos) == TRUE

\* dist(screenPos, this.dragStartPos) > DRAG_THRESHOLD
dragPromoted(startPos, pos) == distSq(pos, startPos) > DRAG_THRESHOLD * DRAG_THRESHOLD

\* the positions a move can report: the grid, and while a press on a grid
\* position is pending also the position exactly DRAG_THRESHOLD beside it
MovePos ==
  Pos \cup (IF tm.dragPending /\ tm.dragStartPos # NoPoint /\ tm.dragStartPos[1] \in Pos
            THEN {Pt(tm.dragStartPos[1].x + DRAG_THRESHOLD, tm.dragStartPos[1].y)}
            ELSE {})

\* the close test shared by the drag move and the drag release
dragCloses(m, shiftHeld) ==
  /\ m.kind = "polyline" /\ ~m.closed /\ Len(m.segments) >= 2 /\ ~shiftHeld
  /\ pointNear(m.segments[Len(m.segments)].end, m.start, CLOSE_SNAP_RADIUS)

\* handleMouseMove while dragging: the measurement and dragCloseSnapPoint after the move
dragMove(m, idx, pos, shiftHeld) ==
  LET m1 == setMeasurementPoint(m, idx, pos)
      n == Len(m1.segments)
      lastPtIdx == Len(getMeasurementPoints(m1)) - 1
  IN IF ~dragCloses(m1, shiftHeld) THEN [m |-> m1, ring |-> NoPoint]
     ELSE IF idx = 0
          THEN [m |-> [m1 EXCEPT !.start = m1.segments[n].end], ring |-> <<m1.segments[n].end>>]
          ELSE IF idx = lastPtIdx
               THEN [m |-> [m1 EXCEPT !.segments[n].end = m1.start], ring |-> <<m1.start>>]
               ELSE [m |-> m1, ring |-> <<m1.start>>]

\* a release that never closes the dragged polyline
dragRelease_open(m, idx, releasePos, shiftHeld) == setMeasurementPoint(m, idx, releasePos)

\* handleMouseUp while dragging: the measurement after the release
dragRelease(m, idx, releasePos, shiftHeld) ==
  LET m1 == setMeasurementPoint(m, idx, releasePos) IN
  IF dragCloses(m1, shiftHeld)
  THEN [m1 EXCEPT !.closed = TRUE, !.segments[Len(m1.segments)].end = m1.start]
  ELSE m1

\* a mouse-up on a pending drag that selects nothing
selectDragged_none(t) == t

\* handleMouseUp: this.selectedMeasurementId / selectedPointIdx = this.dragInfo
selectDragged(t) ==
  [t EXCEPT !.selectedMeasurementId = t.dragInfo[1].measurementId,
            !.selectedPointIdx = t.dragInfo[1].pointIndex]

handleMouseDown(shiftHeld) ==
  LET hit == findHoveredPoint(measurements, mousePos) IN
  IF activeMeasurement = NoPoly /\ hit # NoHit
  THEN /\ ~buttonDown
       /\ tm.editsLeft > 0
       /\ buttonDown' = TRUE
       /\ tm' = [tm EXCEPT !.dragInfo = hit, !.dragPending = TRUE,
                           !.dragStartPos = <<mousePos>>, !.editsLeft = @ - 1]
       /\ hist' = [HistInit EXCEPT !.click = "point", !.last = "press",
                                  !.poly = hit[1].measurementId,
                                  !.segsBefore = polys[hit[1].measurementId].segments,
                                  !.point = hit[1].pointIndex]
       /\ UNCHANGED <<polys, activeMeasurement, isHoldingForArc, arcDragTimeout,
                      isClosingSegment, arcIsNewSegment, currentSnap, closeSnapActive,
                      measurements, mousePos, pm>>
  ELSE \* a press that draws is made on the grid, or where the preview snaps onto it
       /\ (mousePos \in Pos \/ (currentSnap # NoSnap /\ currentSnap[1].snapped \in Pos))
       /\ onClick(shiftHeld)
       /\ tm' = IF activeMeasurement = NoPoly THEN clearSelection(tm) ELSE tm

handleMouseMove(pos, shiftHeld) ==
  LET promote == /\ tm.dragPending /\ ~tm.isDragging /\ tm.dragStartPos # NoPoint
                 /\ dragPromoted(tm.dragStartPos[1], pos)
      dragging == tm.isDragging \/ promote
      tm1 == [tm EXCEPT !.isDragging = dragging,
                        !.dragPending = IF promote THEN FALSE ELSE @]
  IN IF dragging /\ tm.dragInfo # NoHit
     THEN /\ mousePos' = pos
          /\ LET id == tm.dragInfo[1].measurementId
                 r == dragMove(polys[id], tm.dragInfo[1].pointIndex, pos, shiftHeld)
             IN IF \E i \in 1..Len(measurements) : measurements[i] = id
                THEN /\ polys' = [polys EXCEPT ![id] = r.m]
                     /\ tm' = [tm1 EXCEPT !.dragCloseSnapPoint = r.ring]
                     /\ hist' = [hist EXCEPT !.last = "drag"]
                ELSE /\ polys' = polys
                     /\ tm' = tm1
                     /\ hist' = Quiet
          /\ UNCHANGED <<activeMeasurement, isHoldingForArc, arcDragTimeout, isClosingSegment,
                         arcIsNewSegment, currentSnap, closeSnapActive, measurements,
                         buttonDown, pm>>
     ELSE /\ onMouseMove(pos, shiftHeld)
          /\ tm' = IF activeMeasurement = NoPoly
                   THEN LET hit == findHoveredPoint(measurements, pos) IN
                        [tm1 EXCEPT !.hoveredMeasurementId =
                                       IF hit # NoHit THEN hit[1].measurementId ELSE NoPoly,
                                    !.hoveredPointIdx =
                                       IF hit # NoHit THEN hit[1].pointIndex ELSE NoIdx]
                   ELSE tm1

handleMouseUp(shiftHeld) ==
  IF tm.dragPending /\ ~tm.isDragging /\ tm.dragInfo # NoHit
  THEN /\ buttonDown
       /\ buttonDown' = FALSE
       /\ tm' = [selectDragged(tm) EXCEPT !.dragPending = FALSE, !.dragStartPos = NoPoint,
                                          !.dragInfo = NoHit]
       /\ hist' = [hist EXCEPT !.last = "select"]
       /\ UNCHANGED <<polys, activeMeasurement, isHoldingForArc, arcDragTimeout,
                      isClosingSegment, arcIsNewSegment, currentSnap, closeSnapActive,
                      measurements, mousePos, pm>>
  ELSE IF tm.isDragging
  THEN /\ buttonDown
       /\ buttonDown' = FALSE
       /\ IF tm.dragInfo # NoHit
             /\ \E i \in 1..Len(measurements) : measurements[i] = tm.dragInfo[1].measurementId
          THEN polys' = [polys EXCEPT ![tm.dragInfo[1].measurementId] =
                           dragRelease(@, tm.dragInfo[1].pointIndex, mousePos, shiftHeld)]
          ELSE polys' = polys
       /\ tm' = [tm EXCEPT !.isDragging = FALSE, !.dragPending = FALSE,
                           !.dragStartPos = NoPoint, !.dragInfo = NoHit,
                           !.dragCloseSnapPoint = NoPoint]
       /\ hist' = [hist EXCEPT !.last = IF polys' # polys /\ polys'[hist.poly].closed
                                                /\ ~polys[hist.poly].closed
                                             THEN "dragClose" ELSE "dragCommit"]
       /\ UNCHANGED <<activeMeasurement, isHoldingForArc, arcDragTimeout, isClosingSegment,
                      arcIsNewSegment, currentSnap, closeSnapActive, measurements,
                      mousePos, pm>>
  ELSE /\ onMouseUp(shiftHeld)
       /\ tm' = tm

handleDblClick ==
  LET hit == findHoveredPoint(measurements, mousePos) IN
  IF activeMeasurement = NoPoly /\ hit # NoHit /\ polys[hit[1].measurementId].kind = "polyline"
  THEN LET id == hit[1].measurementId
           m == removePolylinePoint(polys[id], hit[1].pointIndex)
       IN /\ ~buttonDown
          /\ tm.editsLeft > 0
          /\ polys' = [polys EXCEPT ![id] = m]
          /\ measurements' = IF Len(m.segments) = 0 THEN Without(measurements, id)
                             ELSE measurements
          /\ tm' = [tm EXCEPT !.hoveredMeasurementId = NoPoly, !.hoveredPointIdx = NoIdx,
                              !.editsLeft = @ - 1]
          /\ hist' = [hist EXCEPT !.last = "dblRemove"]
          /\ UNCHANGED <<activeMeasurement, isHoldingForArc, arcDragTimeout, isClosingSegment,
                         arcIsNewSegment, currentSnap, closeSnapActive, mousePos,
                         buttonDown, pm>>
  ELSE /\ onDblClick
       /\ tm' = tm

handleKeyDownEscape ==
  IF Selected /\ activeMeasurement = NoPoly
  THEN /\ tm' = clearSelection(tm)
       /\ hist' = Keyed
       /\ UNCHANGED <<polys, activeMeasurement, isHoldingForArc, arcDragTimeout,
                      isClosingSegment, arcIsNewSegment, currentSnap, closeSnapActive,
                      measurements, mousePos, buttonDown, pm>>
  ELSE /\ onKeyDownEscape
       /\ tm' = tm

handleKeyDownEnter ==
  /\ onKeyDownEnter
  /\ tm' = tm

\* Tab moves the selection to the next point; without a selection the key
\* reaches the tool, which ignores it
handleKeyDownTab ==
  /\ hist' = Keyed
  /\ tm' = IF Selected /\ \E i \in 1..Len(measurements) :
                            measurements[i] = tm.selectedMeasurementId
           THEN [tm EXCEPT !.selectedPointIdx =
                   (@ + 1) % Len(getMeasurementPoints(polys[tm.selectedMeasurementId]))]
           ELSE tm
  /\ UNCHANGED <<polys, activeMeasurement, isHoldingForArc, arcDragTimeout,
                 isClosingSegment, arcIsNewSegment, currentSnap, closeSnapActive,
                 measurements, mousePos, buttonDown, pm>>

\* Delete and Backspace without the fallback to the hovered measurement
handleKeyDownDelete_noFallback ==
  IF Selected
  THEN /\ measurements' = Without(measurements, tm.selectedMeasurementId)
       /\ tm' = clearSelection(tm)
       /\ hist' = [Keyed EXCEPT !.last = "deleteSelected"]
       /\ UNCHANGED <<polys, activeMeasurement, isHoldingForArc, arcDragTimeout,
                      isClosingSegment, arcIsNewSegment, currentSnap, closeSnapActive,
                      mousePos, buttonDown, pm>>
  ELSE /\ onKeyDownBackspace
       /\ tm' = tm

\* Delete and Backspace: the selected measurement, else the tool's own
\* handling, else the hovered measurement
handleKeyDownDelete ==
  IF Selected
  THEN /\ measurements' = Without(measurements, tm.selectedMeasurementId)
       /\ tm' = clearSelection(tm)
       /\ hist' = [Keyed EXCEPT !.last = "deleteSelected"]
       /\ UNCHANGED <<polys, activeMeasurement, isHoldingForArc, arcDragTimeout,
                      isClosingSegment, arcIsNewSegment, currentSnap, closeSnapActive,
                      mousePos, buttonDown, pm>>
  ELSE IF /\ ~(activeMeasurement # NoPoly /\ Len(polys[activeMeasurement].segments) > 0)
          /\ tm.hoveredMeasurementId # NoPoly
  THEN /\ tm.editsLeft > 0
       /\ measurements' = Without(measurements, tm.hoveredMeasurementId)
       /\ tm' = [tm EXCEPT !.hoveredMeasurementId = NoPoly, !.hoveredPointIdx = NoIdx,
                           !.editsLeft = @ - 1]
       /\ hist' = Keyed
       /\ UNCHANGED <<polys, activeMeasurement, isHoldingForArc, arcDragTimeout,
                      isClosingSegment, arcIsNewSegment, currentSnap, closeSnapActive,
                      mousePos, buttonDown, pm>>
  ELSE /\ onKeyDownBackspace
       /\ tm' = tm

ArrowKeys == {"ArrowLeft", "ArrowRight", "ArrowUp", "ArrowDown"}

\* an arrow step of a whole unit
getArrowDelta_wholeUnit(key) ==
  CASE key = "ArrowLeft" -> <<Pt(-2, 0)>>
    [] key = "ArrowRight" -> <<Pt(2, 0)>>
    [] key = "ArrowUp" -> <<Pt(0, -2)>>
    [] key = "ArrowDown" -> <<Pt(0, 2)>>
    [] OTHER -> NoPoint

\* getArrowDelta, null being NoPoint. Where arrow keys are pressed the
\* coordinates count half units, so that the step of 0.5 is 1.
getArrowDelta(key) ==
  CASE key = "ArrowLeft" -> <<Pt(-1, 0)>>
    [] key = "ArrowRight" -> <<Pt(1, 0)>>
    [] key = "ArrowUp" -> <<Pt(0, -1)>>
    [] key = "ArrowDown" -> <<Pt(0, 1)>>
    [] OTHER -> NoPoint

\* handleKeyDown for an arrow key: the nudge of the selected point, else the
\* key reaches the tool, which ignores it
handleKeyDownArrow(key) ==
  /\ hist' = Keyed
  /\ IF Selected /\ getArrowDelta(key) # NoPoint
     THEN LET id == tm.selectedMeasurementId
              found == \E i \in 1..Len(measurements) : measurements[i] = id
              pts == getMeasurementPoints(polys[id])
              idx == tm.selectedPointIdx
              delta == getArrowDelta(key)[1]
          IN /\ tm.editsLeft > 0
             /\ tm' = [tm EXCEPT !.editsLeft = @ - 1]
             /\ polys' = IF found /\ idx + 1 \in 1..Len(pts)
                         THEN [polys EXCEPT ![id] =
                                 setMeasurementPoint(polys[id], idx,
                                                     Pt(pts[idx + 1].x + delta.x,
                                                        pts[idx + 1].y + delta.y))]
                         ELSE polys
     ELSE UNCHANGED <<polys, tm>>
  /\ UNCHANGED <<activeMeasurement, isHoldingForArc, arcDragTimeout, isClosingSegment,
                 arcIsNewSegment, currentSnap, closeSnapActive, measurements, mousePos,
                 buttonDown, pm>>

\* the timer callback touches no ToolManager field
handleTimer ==
  /\ TimerFire
  /\ tm' = tm

\* ToolManager.setActiveTool to another tool and back
setActiveTool ==
  /\ onDeactivate
  /\ tm' = clearSelection(tm)

Next ==
  \/ \E shiftHeld \in BOOLEAN : handleMouseDown(shiftHeld)
  \/ handleTimer
  \/ \E pos \in MovePos, shiftHeld \in BOOLEAN : handleMouseMove(pos, shiftHeld)
  \/ \E shiftHeld \in BOOLEAN : handleMouseUp(shiftHeld)
  \/ handleDblClick
  \/ handleKeyDownEscape
  \/ handleKeyDownEnter
  \/ handleKeyDownTab
  \/ handleKeyDownDelete
  \/ setActiveTool

Spec == Init /\ [][Next]_vars

\* ------------------------------------------------- editing a stored collection
\* The collection loaded at construction: one completed polyline over the grid,
\* straight or with a bulge point on each segment, open or (from two segments
\* on) closed.
EditBulge == Pt(10, 10)
EditSegs == {Seg(e, b) : e \in Pos, b \in {NoBulge, <<EditBulge>>}}
EditPolylines ==
  {Polyline(s, segs, c) :
     s \in Pos, segs \in UNION {[1..n -> EditSegs] : n \in 1..2}, c \in BOOLEAN}

InitEdit ==
  /\ \E m \in EditPolylines :
       /\ m.closed => Len(m.segments) >= 2
       /\ polys = <<m>>
  /\ measurements = <<1>>
  /\ activeMeasurement = NoPoly
  /\ isHoldingForArc = FALSE
  /\ arcDragTimeout = NoTimeout
  /\ isClosingSegment = FALSE
  /\ arcIsNewSegment = FALSE
  /\ currentSnap = NoSnap
  /\ closeSnapActive = FALSE
  /\ mousePos = Pt(0, 0)
  /\ buttonDown = FALSE
  /\ hist = HistInit
  /\ tm = [TMInit EXCEPT !.editsLeft = MaxEdits]
  /\ pm = PMInit

SpecEdit == InitEdit /\ [][Next]_vars

\* ------------------------------------------- quick clicks with a snap preview
\* Every press is released before the hold timer fires. The pointer can also
\* rest one unit beside a grid position, where the preview of the next
\* segment snaps onto the grid.
SnapProbe == Pt(21, 20)

NextSnap ==
  \/ \E pos \in Pos \cup {SnapProbe}, shiftHeld \in BOOLEAN : handleMouseMove(pos, shiftHeld)
  \/ \E shiftHeld \in BOOLEAN : handleMouseDown(shiftHeld)
  \/ \E shiftHeld \in BOOLEAN : handleMouseUp(shiftHeld)
  \/ handleKeyDownEnter
  \/ handleKeyDownDelete

SpecSnap == Init /\ [][NextSnap]_vars

TypeOK ==
  /\ activeMeasurement \in 0..Len(polys)
  /\ TotalPoints(polys) <= MaxPoints


\* ------------------------------------------------------------ point model
\* Measurements handed to the point-model functions.  A closed polyline has
\* at least two segments (LineTool closes no shorter one); its last end may or
\* may not coincide with start, with or without a bulge.
\* The points are the corners of a 30-40-50 triangle, so that every distance
\* between two of them, and with it every circle radius, is a whole number.
PMPos == {Pt(0, 0), Pt(30, 0), Pt(30, 40)}
PMBulge == Pt(10, 10)
PMSegs == {Seg(e, b) : e \in PMPos, b \in {NoBulge, <<PMBulge>>}}
PMSegSeqs == UNION {[1..n -> PMSegs] : n \in 0..MaxPMSegs}
PMPolylines ==
  {Polyline(s, segs, c) : s \in PMPos, segs \in PMSegSeqs, c \in BOOLEAN} \
    {Polyline(s, segs, TRUE) : s \in PMPos, segs \in {q \in PMSegSeqs : Len(q) < 2}}
PMRectangles == {[kind |-> "rectangle", points |-> <<a, b>>] : a \in PMPos, b \in PMPos}
PMCircles == {[kind |-> "circle", center |-> c, radiusPx |-> r] : c \in PMPos, r \in {30, 50}}
PMMeasurements == PMPolylines \cup PMRectangles \cup PMCircles

InitPM ==
  /\ ToolInit
  /\ \E m \in PMMeasurements : pm = [PMInit EXCEPT !.m = m, !.before = m]

CallGetMeasurementPoints ==
  /\ pm.op = "none"
  /\ pm' = [pm EXCEPT !.op = "get", !.pts = getMeasurementPoints(pm.m)]
  /\ UNCHANGED toolVars

CallSetMeasurementPoint ==
  /\ pm.op = "none"
  /\ \E idx \in 0..Len(getMeasurementPoints(pm.m)), p \in PMPos :
       pm' = [pm EXCEPT !.op = "set", !.idx = idx, !.p = p,
                        !.m = setMeasurementPoint(pm.m, idx, p)]
  /\ UNCHANGED toolVars

CallIdentifyPolylinePoint ==
  /\ pm.op = "none"
  /\ pm.m.kind = "polyline"
  /\ \E idx \in -1..(Len(getMeasurementPoints(pm.m)) + 1) :
       pm' = [pm EXCEPT !.op = "identify", !.idx = idx,
                        !.loc = identifyPolylinePoint(pm.m, idx)]
  /\ UNCHANGED toolVars

CallRemovePolylinePoint ==
  /\ pm.op = "none"
  /\ pm.m.kind = "polyline"
  /\ \E idx \in 0..Len(getMeasurementPoints(pm.m)) :
       pm' = [pm EXCEPT !.op = "remove", !.idx = idx,
                        !.m = removePolylinePoint(pm.m, idx)]
  /\ UNCHANGED toolVars

NextPM ==
  \/ CallGetMeasurementPoints
  \/ CallSetMeasurementPoint
  \/ CallIdentifyPolylinePoint
  \/ CallRemovePolylinePoint

SpecPM == InitPM /\ [][NextPM]_vars

\* ------------------------------------------------------------ hit testing
\* A collection of one or two completed shapes around two anchor points, and a
\* pointer on an anchor, exactly POINT_HIT_RADIUS from one, or just beyond.
HitAnchors == {Pt(0, 0), Pt(30, 0)}
HitPointer == {Pt(0, 0), Pt(6, 8), Pt(7, 8), Pt(30, 0)}
HitShapes ==
  {Polyline(a, <<>>, FALSE) : a \in HitAnchors}
    \cup {Polyline(a, <<Seg(b, NoBulge)>>, FALSE) : a \in HitAnchors, b \in HitAnchors}
    \cup {Polyline(a, <<Seg(a, <<b>>)>>, FALSE) : a \in HitAnchors, b \in HitAnchors}
    \cup {[kind |-> "rectangle", points |-> <<a, b>>] : a \in HitAnchors, b \in HitAnchors}
    \cup {[kind |-> "circle", center |-> c, radiusPx |-> 30] : c \in HitAnchors}

InitHit ==
  /\ \E ms \in UNION {[1..n -> HitShapes] : n \in 1..2} :
       /\ polys = ms
       /\ measurements = [i \in 1..Len(ms) |-> i]
  /\ activeMeasurement = NoPoly
  /\ isHoldingForArc = FALSE
  /\ arcDragTimeout = NoTimeout
  /\ isClosingSegment = FALSE
  /\ arcIsNewSegment = FALSE
  /\ currentSnap = NoSnap
  /\ closeSnapActive = FALSE
  /\ mousePos = Pt(0, 0)
  /\ buttonDown = FALSE
  /\ hist = HistInit
  /\ tm = TMInit
  /\ pm = PMInit

CallFindHoveredPoint ==
  /\ pm.op = "none"
  /\ \E pos \in HitPointer :
       pm' = [pm EXCEPT !.op = "find", !.p = pos,
                        !.hit = findHoveredPoint(measurements, pos)]
  /\ UNCHANGED toolVars

SpecHit == InitHit /\ [][CallFindHoveredPoint]_vars

\* ---------------------------------------------------------------- nudging
\* A collection of one or two completed shapes (polylines open or closed back
\* onto start), in half units, with no point selected or with one of their
\* points selected (a circle by its centre).
NudgeAnchors == {Pt(0, 0), Pt(60, 0)}
NudgeBulge == Pt(20, 20)
NudgeShapes ==
  {Polyline(a, <<Seg(b, bg)>>, FALSE) :
     a \in NudgeAnchors, b \in NudgeAnchors, bg \in {NoBulge, <<NudgeBulge>>}}
    \cup {Polyline(a, <<Seg(b, NoBulge), Seg(a, bg)>>, TRUE) :
            a \in NudgeAnchors, b \in NudgeAnchors, bg \in {NoBulge, <<NudgeBulge>>}}
    \cup {[kind |-> "rectangle", points |-> <<a, b>>] : a \in NudgeAnchors, b \in NudgeAnchors}
    \cup {[kind |-> "circle", center |-> c, radiusPx |-> 60] : c \in NudgeAnchors}

InitNudge ==
  /\ \E ms \in UNION {[1..n -> NudgeShapes] : n \in 1..2} :
       /\ polys = ms
       /\ measurements = [i \in 1..Len(ms) |-> i]
       /\ \/ tm = [TMInit EXCEPT !.editsLeft = MaxEdits]
          \/ \E id \in 1..Len(ms) :
               \E idx \in 0..(IF ms[id].kind = "circle" THEN 0
                              ELSE Len(getMeasurementPoints(ms[id])) - 1) :
                 tm = [TMInit EXCEPT !.editsLeft = MaxEdits,
                                     !.selectedMeasurementId = id,
                                     !.selectedPointIdx = idx]
  /\ activeMeasurement = NoPoly
  /\ isHoldingForArc = FALSE
  /\ arcDragTimeout = NoTimeout
  /\ isClosingSegment = FALSE
  /\ arcIsNewSegment = FALSE
  /\ currentSnap = NoSnap
  /\ closeSnapActive = FALSE
  /\ mousePos = Pt(0, 0)
  /\ buttonDown = FALSE
  /\ hist = HistInit
  /\ pm = PMInit

NextNudge == \E key \in ArrowKeys : handleKeyDownArrow(key)

SpecNudge == InitNudge /\ [][NextNudge]_vars

\* -------------------------------------------------------------- selection
\* Completed polylines, one point of which may be selected, under the pointer
\* and the keys that act on a selection.
SelectPos == NudgeAnchors \cup {NudgeBulge}
SelectShapes == {m \in NudgeShapes : m.kind = "polyline"}

InitSelect ==
  /\ \E ms \in UNION {[1..n -> SelectShapes] : n \in 1..2} :
       /\ polys = ms
       /\ measurements = [i \in 1..Len(ms) |-> i]
       /\ \/ tm = [TMInit EXCEPT !.editsLeft = MaxEdits]
          \/ \E id \in 1..Len(ms) :
               \E idx \in 0..(Len(getMeasurementPoints(ms[id])) - 1) :
                 tm = [TMInit EXCEPT !.editsLeft = MaxEdits,
                                     !.selectedMeasurementId = id,
                                     !.selectedPointIdx = idx]
  /\ activeMeasurement = NoPoly
  /\ isHoldingForArc = FALSE
  /\ arcDragTimeout = NoTimeout
  /\ isClosingSegment = FALSE
  /\ arcIsNewSegment = FALSE
  /\ currentSnap = NoSnap
  /\ closeSnapActive = FALSE
  /\ mousePos = Pt(0, 0)
  /\ buttonDown = FALSE
  /\ hist = HistInit
  /\ pm = PMInit

NextSelect ==
  \/ \E pos \in SelectPos : handleMouseMove(pos, FALSE)
  \/ handleMouseDown(FALSE)
  \/ handleMouseUp(FALSE)
  \/ handleTimer
  \/ handleDblClick
  \/ handleKeyDownTab
  \/ handleKeyDownDelete
  \/ handleKeyDownEscape

SpecSelect == InitSelect /\ [][NextSelect]_vars

\* -------------------------------------------------------------- hash sync
\* The debounced rewrite of the URL hash. The measurements are known by the
\* save version at which they were last changed: encoded is the version that
\* was serialised by the update in flight, hash the version the URL encodes.
MaxSaves == 6

persistMeasurements ==
  /\ pm.sync.saveVersion < MaxSaves
  /\ pm' = [pm EXCEPT !.sync.saveVersion = @ + 1]
  /\ UNCHANGED toolVars

scheduleHashSync(y) ==
  IF y.hashUpdateInFlight \/ y.hashDebounceTimeout THEN y
  ELSE [y EXCEPT !.hashDebounceTimeout = TRUE]

\* one animation frame
draw ==
  /\ pm' = [pm EXCEPT !.sync = IF pm.sync.saveVersion # pm.sync.lastSyncedVersion
                               THEN scheduleHashSync(pm.sync) ELSE pm.sync]
  /\ UNCHANGED toolVars

\* The timer fires and the measurements are serialised. A payload of at most
\* 500 bytes is written before any other event is handled; a larger one is
\* compressed first, and other events are handled meanwhile.
hashDebounceFire ==
  /\ pm.sync.hashDebounceTimeout
  /\ \E compressed \in BOOLEAN :
       LET y == pm.sync IN
       pm' = [pm EXCEPT !.sync =
                IF compressed
                THEN [y EXCEPT !.hashDebounceTimeout = FALSE, !.hashUpdateInFlight = TRUE,
                               !.encoded = y.saveVersion]
                ELSE [y EXCEPT !.hashDebounceTimeout = FALSE, !.encoded = y.saveVersion,
                               !.hash = y.saveVersion,
                               !.lastSyncedVersion = y.saveVersion]]
  /\ UNCHANGED toolVars

\* the compressed payload is written to the URL
setHashDone ==
  /\ pm.sync.hashUpdateInFlight
  /\ LET y == pm.sync IN
     pm' = [pm EXCEPT !.sync = [y EXCEPT !.hash = y.encoded,
                                         !.hashUpdateInFlight = FALSE,
                                         !.lastSyncedVersion = y.saveVersion]]
  /\ UNCHANGED toolVars

NextSync ==
  \/ persistMeasurements
  \/ draw
  \/ hashDebounceFire
  \/ setHashDone

SpecSync == Init /\ [][NextSync]_vars

\* frames keep coming, a set timer fires, and a started compression ends
FairSpecSync ==
  SpecSync /\ WF_vars(draw) /\ WF_vars(hashDebounceFire) /\ WF_vars(setHashDone)

\* --------------------------------------------------------------- geometry
\* The geometry functions called on their own, on points of a small grid and
\* on tangent directions along the axes, the diagonal and two skew lines.
GeoPts == {Pt(x, y) : x \in -1..2, y \in -1..2}
GeoDirs == {Pt(1, 0), Pt(-1, 0), Pt(0, 1), Pt(0, -1), Pt(1, 1), Pt(-1, 2), Pt(2, -1)}

\* The point computeTangentArcBulge returns, where it has whole coordinates.
\* The centre is C / K and the radius q * |n| / |K|; the middle of the sweep
\* lies along the sum of the two radii for a sweep under half a turn, against
\* it for a sweep over half a turn, and a quarter turn from the start radius
\* for a half turn. NoPoint stands for null and for a point off the grid.
MaxRoot == 25
IntRoot(n) == {r \in 0..(2 * MaxRoot) : r * r = n}

\* the middle of the sweep taken on the far side of the centre
tangentArcBulgePoint_farSide(segStart, segEnd, tangentDir) ==
  LET n == Pt(-tangentDir.y, tangentDir.x)
      d == Sub(segStart, segEnd)
      q == Dot(d, d)
      K == 2 * Dot(n, d)
      C == Pt(segStart.x * K - q * n.x, segStart.y * K - q * n.y)
      B == Pt(segEnd.x * K - C.x, segEnd.y * K - C.y)
      cr == Cross(n, B)
      ccw == K < 0
      M0 == Unit(Pt(2 * q * n.x - K * d.x, 2 * q * n.y - K * d.y))
      rn == IntRoot(Dot(n, n))
      rm == IF Abs(M0.x) <= MaxRoot /\ Abs(M0.y) <= MaxRoot
            THEN IntRoot(Dot(M0, M0)) ELSE {}
      side == IF (cr > 0) = ccw THEN -1 ELSE 1
      N == IF cr = 0
           THEN IF ccw THEN Pt(C.x - q * n.y, C.y + q * n.x)
                       ELSE Pt(C.x + q * n.y, C.y - q * n.x)
           ELSE LET k == CHOOSE k \in {(q * a) \div b : a \in rn, b \in rm} : TRUE
                IN Pt(C.x + side * k * M0.x, C.y + side * k * M0.y)
  IN IF q = 0 \/ K = 0 THEN NoPoint
     ELSE IF cr # 0 /\ (rn = {} \/ rm = {}) THEN NoPoint
     ELSE IF cr # 0 /\ \E a \in rn, b \in rm : (q * a) % b # 0 THEN NoPoint
     ELSE IF N.x % Abs(K) # 0 \/ N.y % Abs(K) # 0 THEN NoPoint
     ELSE IF K < 0 THEN <<Pt((-N.x) \div (-K), (-N.y) \div (-K))>>
     ELSE <<Pt(N.x \div K, N.y \div K)>>

tangentArcBulgePoint(segStart, segEnd, tangentDir) ==
  LET n == Pt(-tangentDir.y, tangentDir.x)
      d == Sub(segStart, segEnd)
      q == Dot(d, d)
      K == 2 * Dot(n, d)
      C == Pt(segStart.x * K - q * n.x, segStart.y * K - q * n.y)
      B == Pt(segEnd.x * K - C.x, segEnd.y * K - C.y)
      cr == Cross(n, B)
      ccw == K < 0
      M0 == Unit(Pt(2 * q * n.x - K * d.x, 2 * q * n.y - K * d.y))
      rn == IntRoot(Dot(n, n))
      rm == IF Abs(M0.x) <= MaxRoot /\ Abs(M0.y) <= MaxRoot
            THEN IntRoot(Dot(M0, M0)) ELSE {}
      side == IF (cr > 0) = ccw THEN 1 ELSE -1
      N == IF cr = 0
           THEN IF ccw THEN Pt(C.x - q * n.y, C.y + q * n.x)
                       ELSE Pt(C.x + q * n.y, C.y - q * n.x)
           ELSE LET k == CHOOSE k \in {(q * a) \div b : a \in rn, b \in rm} : TRUE
                IN Pt(C.x + side * k * M0.x, C.y + side * k * M0.y)
  IN IF q = 0 \/ K = 0 THEN NoPoint
     ELSE IF cr # 0 /\ (rn = {} \/ rm = {}) THEN NoPoint
     ELSE IF cr # 0 /\ \E a \in rn, b \in rm : (q * a) % b # 0 THEN NoPoint
     ELSE IF N.x % Abs(K) # 0 \/ N.y % Abs(K) # 0 THEN NoPoint
     ELSE IF K < 0 THEN <<Pt((-N.x) \div (-K), (-N.y) \div (-K))>>
     ELSE <<Pt(N.x \div K, N.y \div K)>>

\* lattice points of the circle of radius 25 about the origin, and the
\* tangent directions of that circle at them
ArcPts == {Pt(x, y) : x \in {-25, -24, -20, -15, -7, 0, 7, 15, 20, 24, 25},
                      y \in {-25, -24, -20, -15, -7, 0, 7, 15, 20, 24, 25}}
          \cap {p \in [x : -25..25, y : -25..25] : p.x * p.x + p.y * p.y = 625}
ArcDirs == {Unit(Pt(-p.y, p.x)) : p \in ArcPts}

\* Angles are whole numbers of eighths of a turn.
Turn == 8
Angles == (-Turn)..Turn

\* the remainder of a by b > 0 with the sign of a
Rem(a, b) == IF a >= 0 THEN a % b ELSE -((-a) % b)

\* the remainder left negative
normalizeAngle_noWrap(a) == Rem(a, Turn)

normalizeAngle(a) ==
  LET r == Rem(a, Turn) IN IF r < 0 THEN r + Turn ELSE r

angleSweepThrough(a1, a2, a3) ==
  LET d2 == normalizeAngle(a2 - a1)
      d3 == normalizeAngle(a3 - a1)
  IN IF d2 < d3 THEN d3 ELSE d3 - Turn

CallAngleSweepThrough ==
  /\ pm.op = "none"
  /\ \E a1 \in Angles, a2 \in Angles, a3 \in Angles :
       pm' = [pm EXCEPT !.op = "sweep",
                        !.geo = <<[args |-> <<a1, a2, a3>>,
                                   out |-> angleSweepThrough(a1, a2, a3)]>>]
  /\ UNCHANGED toolVars

CallCircumscribedCircle ==
  /\ pm.op = "none"
  /\ \E p1 \in GeoPts, p2 \in GeoPts, p3 \in GeoPts :
       pm' = [pm EXCEPT !.op = "circle",
                        !.geo = <<[args |-> <<p1, p2, p3>>,
                                   out |-> circumscribedCircle(p1, p2, p3)]>>]
  /\ UNCHANGED toolVars

CallComputeTangentArcBulge ==
  /\ pm.op = "none"
  /\ \E segStart \in GeoPts, segEnd \in GeoPts, tangentDir \in GeoDirs :
       pm' = [pm EXCEPT !.op = "bulge",
                        !.geo = <<[args |-> <<segStart, segEnd, tangentDir>>,
                                   out |-> computeTangentArcBulge(segStart, segEnd,
                                                                  tangentDir)]>>]
  /\ UNCHANGED toolVars

CallTangentArcBulgePoint ==
  /\ pm.op = "none"
  /\ \E segStart \in ArcPts, segEnd \in ArcPts, tangentDir \in ArcDirs :
       /\ tangentArcBulgePoint(segStart, segEnd, tangentDir) # NoPoint
       /\ pm' = [pm EXCEPT !.op = "arcpoint",
                           !.geo = <<[args |-> <<segStart, segEnd, tangentDir>>,
                                      out |-> tangentArcBulgePoint(segStart, segEnd,
                                                                   tangentDir)]>>]
  /\ UNCHANGED toolVars

NextGeo ==
  \/ CallCircumscribedCircle
  \/ CallComputeTangentArcBulge
  \/ CallTangentArcBulgePoint
  \/ CallAngleSweepThrough

SpecGeo == Init /\ [][NextGeo]_vars

\* ----------------------------------------------------------- claims C1-C3
InCollection(id) == \E i \in 1..Len(measurements) : measurements[i] = id

\* C1: a timer whose polyline is no longer the active one (handed off or
\* discarded since the click) changes nothing when it fires: no polyline
\* changes and HoldingForArc is not set.
C1_StaleTimerInert ==
  [][(TimerFire /\ arcDragTimeout[1].mRef # activeMeasurement)
       => (polys' = polys /\ isHoldingForArc' = isHoldingForArc)]_vars

\* C2: a polyline enters the collection only with at least one segment.
C2_HandOffHasSegment ==
  [][\A id \in 1..Len(polys) :
       (~InCollection(id) /\ InCollection(id)') => Len(polys'[id].segments) >= 1]_vars

\* C3: with no active polyline (Idle), HoldingForArc is false.
C3_HoldingOnlyWhileBuilding == (activeMeasurement = NoPoly) => ~isHoldingForArc


\* ----------------------------------------------------------- claims C4-C8
LastSeg(m) == m.segments[Len(m.segments)]

\* the logical start of the trailing segment
PrevEnd(m) == IF Len(m.segments) >= 2 THEN m.segments[Len(m.segments) - 1].end ELSE m.start

\* C4: a mouse-up that arrives while the hold timer is pending cancels it, so
\* it can no longer fire; the click has not set HoldingForArc and the release
\* does not set it, the timer appended no segment, and (no key pressed
\* meanwhile) the just-clicked segment is still the straight last segment of
\* its polyline, or, for a closing click, has been popped again.
C4_MouseUpCancelsTimer ==
  [][\A s \in BOOLEAN :
       (onMouseUp(s) /\ arcDragTimeout # NoTimeout)
         => /\ arcDragTimeout' = NoTimeout
            /\ isHoldingForArc' => isHoldingForArc
            /\ hist.newSeg = 0
            /\ ~hist.keyed =>
                 LET segs == polys'[hist.poly].segments IN
                 IF hist.click = "closing" THEN segs = hist.segsBefore
                 ELSE /\ Len(segs) = Len(hist.segsBefore) + 1
                      /\ Pop(segs) = hist.segsBefore
                      /\ segs[Len(segs)].bulge = NoBulge]_vars

C4_Witness ==
  /\ hist.last = "upCancel" /\ hist.click = "normal" /\ ~hist.keyed
  /\ arcDragTimeout = NoTimeout /\ ~isHoldingForArc
  /\ LastSeg(polys[hist.poly]).bulge = NoBulge

C5_TimerFireAtClickPos ==
  [][(TimerFire /\ ~arcDragTimeout[1].closing /\ ~hist.keyed)
       => LET p == arcDragTimeout[1].mRef
              m == polys[p]
          IN /\ isHoldingForArc'
             /\ IF distSq(PrevEnd(m), LastSeg(m).end) > POINT_HIT_RADIUS * POINT_HIT_RADIUS
                THEN /\ polys'[p].segments =
                          Append(m.segments, Seg(arcDragTimeout[1].mousePos, NoBulge))
                     /\ arcIsNewSegment'
                ELSE polys' = polys]_vars

\* C6: a closing click (no shift, at least 2 segments, within
\* CLOSE_SNAP_RADIUS of start) followed by mouse-up, with no key press or
\* deactivation in between, hands the polyline off with closed = TRUE; a
\* closing segment that is still straight is popped, leaving exactly the
\* segments from before the click, and one that got a bulge is kept.
C6_ClosingClickRelease ==
  [][\A s \in BOOLEAN :
       (onMouseUp(s) /\ hist.click = "closing" /\ ~hist.keyed)
         => \A p \in {hist.poly} :
            LET m == polys[p]
            IN /\ activeMeasurement = p
               /\ Len(hist.segsBefore) >= 2
               /\ ~InCollection(p) /\ InCollection(p)'
               /\ activeMeasurement' = NoPoly
               /\ polys'[p].closed
               /\ polys'[p].start = m.start
               /\ IF LastSeg(m).bulge = NoBulge
                  THEN polys'[p].segments = hist.segsBefore
                  ELSE /\ polys'[p].segments = m.segments
                       /\ Pop(m.segments) = hist.segsBefore
                       /\ LastSeg(m).end = m.start]_vars

C6_Witness ==
  /\ hist.last = "upClosing" /\ hist.click = "closing" /\ ~hist.keyed
  /\ InCollection(hist.poly)
  /\ polys[hist.poly].closed
  /\ polys[hist.poly].segments = hist.segsBefore

\* the release of a held, non-closing arc to which close applies
CloseApplies(m, shiftHeld) ==
  /\ ~shiftHeld
  /\ Len(m.segments) >= 2
  /\ pointNear(LastSeg(m).end, m.start, CLOSE_SNAP_RADIUS)

HeldArcRelease(shiftHeld) ==
  onMouseUp(shiftHeld) /\ isHoldingForArc /\ ~isClosingSegment /\ activeMeasurement # NoPoly

\* C7: releasing a held, non-closing arc without shift while its end is
\* within CLOSE_SNAP_RADIUS of start (at least 2 segments) sets the end to
\* start exactly, sets closed and hands the polyline off; no segment is
\* removed, even when the segment is a degenerate new segment.
C7_ReleaseNearStartCloses ==
  [][\A s \in BOOLEAN :
       (HeldArcRelease(s) /\ CloseApplies(polys[activeMeasurement], s))
         => \A p \in {activeMeasurement} :
              LET m == polys[p]
                  n == Len(m.segments)
              IN /\ polys'[p].segments = [m.segments EXCEPT ![n].end = m.start]
                 /\ polys'[p].closed
                 /\ polys'[p].start = m.start
                 /\ ~InCollection(p) /\ InCollection(p)'
                 /\ activeMeasurement' = NoPoly]_vars

C7_Witness ==
  /\ hist.last = "upArcCloseDegenerate"
  /\ activeMeasurement = NoPoly
  /\ \E i \in 1..Len(measurements) :
       LET m == polys[measurements[i]] IN
       /\ m.closed
       /\ hist.newSeg = Len(m.segments)
       /\ LastSeg(m).end = m.start

\* C8: releasing a held, non-closing arc when close does not apply removes
\* the trailing segment if and only if the timer created it (new-segment
\* mode) and its end is within DEGENERATE_DIST of its logical start; nothing
\* else changes, so a segment converted in place is never removed.
C8_DegenerateOnlyIfTimerMade ==
  [][\A s \in BOOLEAN :
       (HeldArcRelease(s) /\ ~CloseApplies(polys[activeMeasurement], s))
         => LET p == activeMeasurement
                m == polys[p]
                n == Len(m.segments)
                timerMade == n >= 1 /\ hist.poly = p /\ hist.newSeg = n
                near == n >= 1 /\ distSq(PrevEnd(m), LastSeg(m).end)
                                   < DEGENERATE_DIST * DEGENERATE_DIST
            IN polys'[p] = IF timerMade /\ near
                           THEN [m EXCEPT !.segments = Pop(m.segments)]
                           ELSE m]_vars

\* ---------------------------------------------------------- claims C9-C10
\* a closed polyline whose last segment ends at start: the closing edge is stored
ExplicitClosing(m) ==
  m.closed /\ Len(m.segments) >= 1 /\ m.segments[Len(m.segments)].end = m.start

\* C9: the flattened points are start, then per segment its bulge (if any)
\* and its end; the end of an explicit closing segment is left out, every
\* vertex of a polyline with an implicit closing edge is kept.
C9_FlattenOmitsClosingEnd ==
  (pm.op = "get" /\ pm.m.kind = "polyline") =>
    LET m == pm.m
        all == <<m.start>> \o segmentPoints(m.segments)
    IN pm.pts = IF ExplicitClosing(m) THEN Pop(all) ELSE all

\* C10: writing index 0 of a closed polyline with an explicit closing
\* segment also moves that segment's end, so it still ends at start; with an
\* implicit closing edge the last segment's end stays as it was.
C10_StartWriteKeepsClosing ==
  (pm.op = "set" /\ pm.idx = 0 /\ pm.before.kind = "polyline" /\ pm.before.closed) =>
    /\ pm.m.start = pm.p
    /\ LastSeg(pm.m).end = IF ExplicitClosing(pm.before) THEN pm.p
                           ELSE LastSeg(pm.before).end

\* --------------------------------------------------------- claims C11-C13
ValidIndex(m, i) == i >= 0 /\ i < Len(getMeasurementPoints(m))

\* C11 as stated: after a write to a valid index i of any measurement, the
\* i-th flattened point is the written position.
C11_RoundTripAllKinds ==
  (pm.op = "set" /\ ValidIndex(pm.before, pm.idx))
    => getMeasurementPoints(pm.m)[pm.idx + 1] = pm.p

\* C11 (amended): the round trip holds for polylines, rectangles and the
\* centre of a circle; a write to index 1 of a circle sets the radius to the
\* distance from the centre to p, so the flattened edge point lies at that
\* distance on the horizontal ray to the right of the centre.
C11_RoundTrip ==
  (pm.op = "set" /\ ValidIndex(pm.before, pm.idx))
    => LET q == getMeasurementPoints(pm.m)[pm.idx + 1] IN
       IF pm.before.kind = "circle" /\ pm.idx = 1
       THEN /\ q.y = pm.before.center.y
            /\ q.x >= pm.before.center.x
            /\ distSq(q, pm.before.center) = distSq(pm.p, pm.before.center)
       ELSE q = pm.p

C11_Witness ==
  /\ pm.op = "set" /\ pm.before.kind = "polyline" /\ pm.idx >= 2
  /\ ValidIndex(pm.before, pm.idx)
  /\ pm.before.segments[1].bulge # NoBulge
  /\ getMeasurementPoints(pm.before)[pm.idx + 1] # pm.p
  /\ getMeasurementPoints(pm.m)[pm.idx + 1] = pm.p

\* the flattened slots taken by the first k segments
Slots(m, k) == Len(segmentPoints(SubSeq(m.segments, 1, k)))

\* C12: identifyPolylinePoint inverts the flattening: index 0 is the start,
\* the index of a segment's bulge or end slot is classified as that field of
\* that segment, and an index outside the flattened list has no location.
C12_IdentifyInvertsFlatten ==
  pm.op = "identify" =>
    LET m == pm.m
        i == pm.idx
    IN IF ~ValidIndex(m, i) THEN pm.loc = NoLoc
       ELSE /\ pm.loc # NoLoc
            /\ LET l == pm.loc[1] IN
               IF l.type = "start" THEN i = 0
               ELSE /\ l.segIndex >= 0 /\ l.segIndex < Len(m.segments)
                    /\ IF l.type = "bulge"
                       THEN /\ m.segments[l.segIndex + 1].bulge # NoBulge
                            /\ i = 1 + Slots(m, l.segIndex)
                            /\ getMeasurementPoints(m)[i + 1] = m.segments[l.segIndex + 1].bulge[1]
                       ELSE /\ l.type = "end"
                            /\ i = Slots(m, l.segIndex + 1)
                            /\ getMeasurementPoints(m)[i + 1] = m.segments[l.segIndex + 1].end

C12_Witness ==
  /\ pm.op = "identify" /\ pm.m.closed
  /\ pm.loc = <<[type |-> "bulge", segIndex |-> 2]>>
  /\ pm.m.segments[1].bulge # NoBulge /\ pm.m.segments[2].bulge = NoBulge

\* C13: removePolylinePoint on a bulge index clears only that bulge; on
\* index 0 it drops segment 0 and makes its end the new start; on an end
\* index it drops exactly that segment; all other segments keep their end
\* and bulge, in their order.
C13_RemovePointFrame ==
  (pm.op = "remove" /\ ValidIndex(pm.before, pm.idx)) =>
    LET b == pm.before
        m == pm.m
        l == identifyPolylinePoint(b, pm.idx)[1]
    IN /\ m.closed = b.closed
       /\ IF l.type = "bulge"
          THEN /\ m.start = b.start
               /\ Len(m.segments) = Len(b.segments)
               /\ \A j \in 1..Len(b.segments) :
                    /\ m.segments[j].end = b.segments[j].end
                    /\ m.segments[j].bulge =
                         IF j = l.segIndex + 1 THEN NoBulge ELSE b.segments[j].bulge
          ELSE IF l.type = "start"
          THEN IF Len(b.segments) = 0 THEN m = b
               ELSE /\ m.start = b.segments[1].end
                    /\ m.segments = Tail(b.segments)
          ELSE /\ m.start = b.start
               /\ Len(m.segments) = Len(b.segments) - 1
               /\ \A j \in 1..Len(m.segments) :
                    m.segments[j] = b.segments[IF j <= l.segIndex THEN j ELSE j + 1]

C13_Witness ==
  /\ pm.op = "remove"
  /\ identifyPolylinePoint(pm.before, pm.idx) = <<[type |-> "end", segIndex |-> 0]>>
  /\ Len(pm.before.segments) = 3
  /\ pm.before.segments[2].bulge # NoBulge
  /\ pm.before.segments[2] # pm.before.segments[3]
  /\ pm.m.segments = Tail(pm.before.segments)


\* --------------------------------------------------------- claims C14-C15
\* C14: with a point of a completed polyline selected, Delete or Backspace
\* removes only that point, as removePolylinePoint does: every other polyline
\* is untouched, and the polyline leaves the collection only if the removal
\* left it with zero segments.
C14_DeleteRemovesSelectedPoint ==
  [][(handleKeyDownDelete /\ Selected /\ InCollection(tm.selectedMeasurementId))
       => \A id \in {tm.selectedMeasurementId} :
            LET m == removePolylinePoint(polys[id], tm.selectedPointIdx) IN
            /\ \A j \in 1..Len(polys) : j # id => polys'[j] = polys[j]
            /\ IF Len(m.segments) = 0
               THEN measurements' = Without(measurements, id)
               ELSE polys'[id] = m /\ measurements' = measurements]_vars

\* C15: the collection never contains a polyline with zero segments.
C15_NoEmptyPolylineInCollection ==
  \A i \in 1..Len(measurements) : Len(polys[measurements[i]].segments) >= 1


\* --------------------------------------------------------- claims C16-C18
lineToolVars == <<activeMeasurement, isHoldingForArc, arcDragTimeout, isClosingSegment,
                  arcIsNewSegment, currentSnap, closeSnapActive>>

\* a press on a point of a completed measurement while nothing is being drawn
PressOnPoint(shiftHeld) ==
  /\ activeMeasurement = NoPoly
  /\ findHoveredPoint(measurements, mousePos) # NoHit
  /\ handleMouseDown(shiftHeld)

\* the press records a pending drag, modifies no measurement and is not
\* passed to the tool
PressOnlyRecords ==
  \A s \in BOOLEAN :
    PressOnPoint(s)
      => /\ polys' = polys /\ measurements' = measurements
         /\ lineToolVars' = lineToolVars
         /\ tm'.dragPending /\ ~tm'.isDragging
         /\ tm'.dragInfo = findHoveredPoint(measurements, mousePos)
         /\ tm'.dragStartPos = <<mousePos>>

\* while the press is pending, a move to within DRAG_THRESHOLD of the press
\* position modifies nothing
PendingMoveInert ==
  \A pos \in MovePos, s \in BOOLEAN :
    (/\ tm.dragPending /\ ~tm.isDragging
     /\ distSq(pos, tm.dragStartPos[1]) <= DRAG_THRESHOLD * DRAG_THRESHOLD
     /\ handleMouseMove(pos, s))
      => polys' = polys /\ measurements' = measurements /\ ~tm'.isDragging

\* a move of a drag in progress, or the move that promotes the pending press,
\* with the dragged measurement still in the collection
DragMove(pos, shiftHeld) ==
  /\ tm.dragInfo # NoHit
  /\ \/ tm.isDragging
     \/ /\ tm.dragPending
        /\ distSq(pos, tm.dragStartPos[1]) > DRAG_THRESHOLD * DRAG_THRESHOLD
  /\ InCollection(tm.dragInfo[1].measurementId)
  /\ handleMouseMove(pos, shiftHeld)

\* C16 as stated: the press only records a pending drag; nothing is modified
\* before the pointer is more than DRAG_THRESHOLD from the press position;
\* from then on every move writes the pointer position to the dragged point.
C16_DragWritesPointer ==
  [][/\ PressOnlyRecords
     /\ PendingMoveInert
     /\ \A pos \in MovePos, s \in BOOLEAN :
          DragMove(pos, s)
            => \A h \in {tm.dragInfo[1]} :
                 getMeasurementPoints(polys'[h.measurementId])[h.pointIndex + 1] = pos]_vars

\* the dragged point is an end of an open polyline of at least two segments
\* and the move brings it within CLOSE_SNAP_RADIUS of the other end, no shift
DragSnapsTo(m, idx, pos, shiftHeld) ==
  IF ~shiftHeld /\ ~m.closed /\ Len(m.segments) >= 2
  THEN IF idx = 0 /\ pointNear(LastSeg(m).end, pos, CLOSE_SNAP_RADIUS)
       THEN <<LastSeg(m).end>>
       ELSE IF /\ idx = Len(getMeasurementPoints(m)) - 1
               /\ pointNear(pos, m.start, CLOSE_SNAP_RADIUS)
            THEN <<m.start>>
            ELSE NoPoint
  ELSE NoPoint

\* C16, amended: as C16, except that a move which brings a dragged start or
\* last endpoint within CLOSE_SNAP_RADIUS of the other end of its open
\* polyline (at least two segments, no shift) writes that other end to the
\* dragged point instead of the pointer position.
C16_DragWritesPointerOrSnap ==
  [][/\ PressOnlyRecords
     /\ PendingMoveInert
     /\ \A pos \in MovePos, s \in BOOLEAN :
          DragMove(pos, s)
            => \A h \in {tm.dragInfo[1]} :
                 LET snap == DragSnapsTo(polys[h.measurementId], h.pointIndex, pos, s)
                 IN getMeasurementPoints(polys'[h.measurementId])[h.pointIndex + 1]
                      = IF snap # NoPoint THEN snap[1] ELSE pos]_vars

C16_Witness ==
  /\ hist.last = "drag" /\ tm.isDragging /\ tm.dragInfo # NoHit
  /\ tm.dragStartPos # NoPoint /\ tm.dragStartPos[1] # mousePos
  /\ getMeasurementPoints(polys[tm.dragInfo[1].measurementId])[tm.dragInfo[1].pointIndex + 1]
       = mousePos

\* a mouse-up that ends a press which never became a drag
PendingRelease(shiftHeld) ==
  /\ tm.dragPending /\ ~tm.isDragging /\ tm.dragInfo # NoHit
  /\ handleMouseUp(shiftHeld)

\* a mouse-up that ends a drag whose measurement is still in the collection
DragRelease(shiftHeld) ==
  /\ tm.isDragging /\ tm.dragInfo # NoHit
  /\ InCollection(tm.dragInfo[1].measurementId)
  /\ handleMouseUp(shiftHeld)

LastPointIdx(m) == Len(getMeasurementPoints(m)) - 1

DragCleared(t) ==
  /\ ~t.isDragging /\ ~t.dragPending
  /\ t.dragInfo = NoHit /\ t.dragStartPos = NoPoint /\ t.dragCloseSnapPoint = NoPoint

\* C17: a mouse-up while the press is still pending makes the hit point the
\* selected point and modifies no measurement; a mouse-up that ends a drag
\* commits it (the release position is written to the dragged point, or start
\* to a last endpoint that the release closes onto start) and leaves the
\* selection as it was.
C17_ReleaseSelectsOrCommits ==
  [][\A s \in BOOLEAN :
       /\ PendingRelease(s)
            => /\ tm'.selectedMeasurementId = tm.dragInfo[1].measurementId
               /\ tm'.selectedPointIdx = tm.dragInfo[1].pointIndex
               /\ polys' = polys /\ measurements' = measurements
               /\ DragCleared(tm')
       /\ DragRelease(s)
            => \A h \in {tm.dragInfo[1]} :
                 LET m == polys[h.measurementId] IN
                 /\ tm'.selectedMeasurementId = tm.selectedMeasurementId
                 /\ tm'.selectedPointIdx = tm.selectedPointIdx
                 /\ DragCleared(tm')
                 /\ measurements' = measurements
                 /\ getMeasurementPoints(polys'[h.measurementId])[h.pointIndex + 1]
                      = IF /\ polys'[h.measurementId].closed /\ ~m.closed
                           /\ h.pointIndex = LastPointIdx(m)
                        THEN m.start ELSE mousePos]_vars

C17_Witness ==
  /\ hist.last = "select" /\ Selected
  /\ tm.selectedMeasurementId = hist.poly /\ tm.selectedPointIdx = hist.point
  /\ mousePos \notin Pos

\* the dragged point is the last endpoint of an open polyline of at least two
\* segments and pos is within CLOSE_SNAP_RADIUS of its start, shift not held
LastEndNearStart(m, idx, pos, shiftHeld) ==
  /\ ~shiftHeld /\ ~m.closed /\ Len(m.segments) >= 2
  /\ idx = LastPointIdx(m)
  /\ pointNear(pos, m.start, CLOSE_SNAP_RADIUS)

\* C18: a drag move that brings the last endpoint of an open polyline (at
\* least 2 segments) within CLOSE_SNAP_RADIUS of its start, shift not held,
\* shows the close-snap ring at start; a release there leaves the endpoint
\* equal to start and the polyline closed.
C18_DragLastEndCloses ==
  [][/\ \A pos \in MovePos, s \in BOOLEAN :
          \A h \in {IF tm.dragInfo # NoHit THEN tm.dragInfo[1]
                    ELSE [measurementId |-> NoPoly, pointIndex |-> NoIdx]} :
            (/\ h.measurementId # NoPoly
             /\ LastEndNearStart(polys[h.measurementId], h.pointIndex, pos, s)
             /\ DragMove(pos, s))
              => tm'.dragCloseSnapPoint = <<polys[h.measurementId].start>>
     /\ \A s \in BOOLEAN :
          \A h \in {IF tm.dragInfo # NoHit THEN tm.dragInfo[1]
                    ELSE [measurementId |-> NoPoly, pointIndex |-> NoIdx]} :
            (/\ h.measurementId # NoPoly
             /\ LastEndNearStart(polys[h.measurementId], h.pointIndex, mousePos, s)
             /\ DragRelease(s))
              => /\ polys'[h.measurementId].closed
                 /\ polys'[h.measurementId].start = polys[h.measurementId].start
                 /\ LastSeg(polys'[h.measurementId]).end = polys[h.measurementId].start]_vars

C18_Witness ==
  /\ hist.last = "dragClose"
  /\ hist.point = LastPointIdx(polys[hist.poly])
  /\ polys[hist.poly].closed
  /\ LastSeg(polys[hist.poly]).end = polys[hist.poly].start
  /\ mousePos # polys[hist.poly].start


\* --------------------------------------------------------- claims C19-C20
\* close snap is active while a polyline is drawn: the last move found the
\* pointer within CLOSE_SNAP_RADIUS of start (closeSnapActive), and the
\* polyline is not mid-closing-segment
CloseSnapActiveDrawing ==
  activeMeasurement # NoPoly /\ closeSnapActive /\ ~isClosingSegment

\* C19: whenever close snap is active during drawing, the draw state has no
\* snap guide, and its effective pointer position and its close-snap ring are
\* both the polyline's start.
C19_CloseSnapOverridesSnap ==
  CloseSnapActiveDrawing
    => /\ getDrawState.snapGuide = NoSnap
       /\ getDrawState.effectiveMousePos = <<polys[activeMeasurement].start>>
       /\ getDrawState.closeSnapRing = <<polys[activeMeasurement].start>>

\* close snap is active where the pointer would otherwise snap to the tangent
\* or the perpendicular of the last segment
C19_Witness ==
  /\ CloseSnapActiveDrawing /\ ~isHoldingForArc
  /\ Len(polys[activeMeasurement].segments) >= 2
  /\ pointNear(mousePos, polys[activeMeasurement].start, CLOSE_SNAP_RADIUS)
  /\ computeSnap(LastSeg(polys[activeMeasurement]).end, mousePos,
                 getPrevTangent(polys[activeMeasurement],
                                Len(polys[activeMeasurement].segments))) # NoSnap

\* a move while an arc is held for a non-closing segment
HeldArcMove(pos, shiftHeld) ==
  /\ activeMeasurement # NoPoly /\ isHoldingForArc /\ ~isClosingSegment
  /\ Len(polys[activeMeasurement].segments) > 0
  /\ handleMouseMove(pos, shiftHeld)

\* C20: every move while an arc is held for a non-closing segment evaluates
\* close snap anew; when it applies (no shift, at least 2 segments, pointer
\* within CLOSE_SNAP_RADIUS of start) the held segment ends at start exactly,
\* with the tangent-arc bulge computed for that end, and nothing else of the
\* polyline changes.
C20_HeldArcCloseSnap ==
  [][\A pos \in MovePos, s \in BOOLEAN :
       HeldArcMove(pos, s)
         => \A p \in {activeMeasurement} :
              LET m == polys[p]
                  n == Len(m.segments)
                  close == shouldCloseSnap(m, pos, s, FALSE)
              IN /\ closeSnapActive' = close
                 /\ close =>
                      /\ polys'[p].start = m.start /\ polys'[p].closed = m.closed
                      /\ Len(polys'[p].segments) = n
                      /\ Pop(polys'[p].segments) = Pop(m.segments)
                      /\ LastSeg(polys'[p]).end = m.start
                      /\ LastSeg(polys'[p]).bulge =
                           computeTangentArcBulge(PrevEnd(m), m.start,
                                                  getPrevTangent(m, n - 1))]_vars

C20_Witness ==
  /\ CloseSnapActiveDrawing /\ isHoldingForArc
  /\ hist.last = "none"
  /\ Len(polys[activeMeasurement].segments) >= 2
  /\ LastSeg(polys[activeMeasurement]).end = polys[activeMeasurement].start
  /\ LastSeg(polys[activeMeasurement]).bulge # NoBulge
  /\ mousePos # polys[activeMeasurement].start

\* --------------------------------------------------------- claims C21-C22
\* C21: a move while an arc is held for a non-closing segment, with close snap
\* not applying to the move, puts the last segment's end at the pointer and
\* sets its bulge to computeTangentArcBulge for the tangent at that segment's
\* start (no bulge when that is null); start, closed and every earlier segment
\* are unchanged.
C21_HeldArcTracksPointer ==
  [][\A pos \in MovePos, s \in BOOLEAN :
       HeldArcMove(pos, s)
         => \A p \in {activeMeasurement} :
              LET m == polys[p]
                  n == Len(m.segments)
              IN ~shouldCloseSnap(m, pos, s, FALSE)
                   => /\ polys'[p].start = m.start /\ polys'[p].closed = m.closed
                      /\ Len(polys'[p].segments) = n
                      /\ Pop(polys'[p].segments) = Pop(m.segments)
                      /\ LastSeg(polys'[p]).end = pos
                      /\ LastSeg(polys'[p]).bulge =
                           computeTangentArcBulge(PrevEnd(m), pos,
                                                  getPrevTangent(m, n - 1))]_vars

\* a held non-closing arc has followed the pointer away from the clicked end
C21_Witness ==
  /\ activeMeasurement # NoPoly /\ isHoldingForArc /\ ~isClosingSegment
  /\ ~closeSnapActive /\ hist.last = "none" /\ ~hist.keyed
  /\ Len(polys[activeMeasurement].segments) >= 2
  /\ LastSeg(polys[activeMeasurement]).end = mousePos
  /\ LastSeg(polys[activeMeasurement]).bulge # NoBulge

\* a move while the hold timer started by a click is pending on the polyline
\* being drawn
PendingTimerMove(pos, shiftHeld) ==
  /\ activeMeasurement # NoPoly /\ arcDragTimeout # NoTimeout
  /\ handleMouseMove(pos, shiftHeld)

\* C22: while the hold timer is pending (started by a click, neither fired nor
\* cancelled), a pointer move changes nothing of the active polyline: start
\* and all segments stay as they were.
C22_PendingTimerMoveInert ==
  [][\A pos \in MovePos, s \in BOOLEAN :
       PendingTimerMove(pos, s)
         => \A p \in {activeMeasurement} : polys'[p] = polys[p]]_vars

\* the pointer has moved away from the clicked end while the timer is pending
C22_Witness ==
  /\ activeMeasurement # NoPoly /\ arcDragTimeout # NoTimeout
  /\ hist.last = "none" /\ ~hist.keyed /\ hist.click = "normal"
  /\ Len(polys[activeMeasurement].segments) >= 1
  /\ mousePos # LastSeg(polys[activeMeasurement]).end

\* --------------------------------------------------------- claims C23-C24
\* a click with shift held on the polyline being drawn
ShiftClick ==
  activeMeasurement # NoPoly /\ handleMouseDown(TRUE)

\* C23: a click with shift held never closes, even within CLOSE_SNAP_RADIUS of
\* start on a polyline with at least 2 segments: one straight segment is
\* appended as by a normal click, closed stays unset, the closing flag is not
\* entered, and the polyline stays the active one, outside the collection.
C23_ShiftClickNeverCloses ==
  [][ShiftClick
       => \A p \in {activeMeasurement} :
            LET m == polys[p] IN
            (Len(m.segments) >= 2 /\ pointNear(mousePos, m.start, CLOSE_SNAP_RADIUS))
              => /\ Len(polys'[p].segments) = Len(m.segments) + 1
                 /\ Pop(polys'[p].segments) = m.segments
                 /\ LastSeg(polys'[p]).bulge = NoBulge
                 /\ polys'[p].start = m.start
                 /\ ~polys'[p].closed
                 /\ ~isClosingSegment'
                 /\ arcDragTimeout' # NoTimeout /\ ~arcDragTimeout'[1].closing
                 /\ activeMeasurement' = p
                 /\ measurements' = measurements]_vars

\* a click near start on a polyline of at least 2 segments was taken as a
\* normal click: shift was held
C23_Witness ==
  /\ activeMeasurement # NoPoly /\ ~isClosingSegment
  /\ hist.last = "click" /\ hist.click = "normal" /\ hist.poly = activeMeasurement
  /\ Len(hist.segsBefore) >= 2
  /\ pointNear(mousePos, polys[activeMeasurement].start, CLOSE_SNAP_RADIUS)
  /\ Len(polys[activeMeasurement].segments) = Len(hist.segsBefore) + 1

\* C24: shift bypasses all snapping: a click with shift held on the polyline
\* being drawn appends a segment whose end is exactly the click position,
\* never a tangent- or perpendicular-snapped one, whatever moves and shift
\* presses came before.
C24_ShiftClickEndsAtPointer ==
  [][ShiftClick
       => \A p \in {activeMeasurement} :
            /\ Len(polys'[p].segments) = Len(polys[p].segments) + 1
            /\ LastSeg(polys'[p]).end = mousePos]_vars

\* --------------------------------------------------------- claims C25-C28
\* every measurement of the collection after the step was in it before
NothingCompleted ==
  \A i \in 1..Len(measurements') : InCollection(measurements'[i])

\* C25: Enter, and likewise a double-click, on an active polyline with at
\* least one segment hands it off with its points unchanged and leaves no
\* active polyline; with zero segments, or with no active polyline, nothing is
\* completed and the active polyline stays as it is.
C25_EnterAndDblClickFinish ==
  [][(handleKeyDownEnter \/ handleDblClick)
       => \A p \in {activeMeasurement} :
            IF p # NoPoly /\ Len(polys[p].segments) >= 1
            THEN /\ measurements' = Append(measurements, p)
                 /\ polys'[p] = polys[p]
                 /\ activeMeasurement' = NoPoly
            ELSE /\ activeMeasurement' = p
                 /\ p # NoPoly => polys'[p] = polys[p]
                 /\ NothingCompleted]_vars

\* a double-click has handed the polyline of the last click off, open
C25_Witness ==
  /\ activeMeasurement = NoPoly /\ measurements # <<>>
  /\ hist.last = "none" /\ ~hist.keyed /\ hist.click = "normal"
  /\ hist.poly = measurements[Len(measurements)]
  /\ ~polys[hist.poly].closed
  /\ Len(polys[hist.poly].segments) >= 1

\* C26: Escape on an active polyline with at least one segment hands it off
\* as a completed shape; with only a start and no segment the polyline is
\* discarded and nothing is added to the collection; either way there is no
\* active polyline afterwards.
C26_EscapeFinishesOrDiscards ==
  [][(activeMeasurement # NoPoly /\ handleKeyDownEscape)
       => \A p \in {activeMeasurement} :
            /\ activeMeasurement' = NoPoly
            /\ polys'[p] = polys[p]
            /\ measurements' = IF Len(polys[p].segments) >= 1
                               THEN Append(measurements, p) ELSE measurements]_vars

\* Escape has discarded a polyline whose segments were all removed while its
\* arc was held
C26_Witness ==
  /\ activeMeasurement = NoPoly /\ isHoldingForArc
  /\ hist.keyed /\ hist.poly # NoPoly /\ ~InCollection(hist.poly)
  /\ Len(polys[hist.poly].segments) = 0

\* the polyline being drawn has a segment for Backspace/Delete to remove
DrawingWithSegments ==
  activeMeasurement # NoPoly /\ Len(polys[activeMeasurement].segments) > 0

\* the collection after the fallback: the hovered shape, if any, is gone
HoveredDeleted ==
  IF tm.hoveredMeasurementId # NoPoly
  THEN Without(measurements, tm.hoveredMeasurementId) ELSE measurements

\* C27 as stated: Backspace/Delete removes exactly the last segment of the
\* active polyline, which stays active; with no segment, or no active
\* polyline, the hovered completed shape, if any, is deleted instead.
C27_DeleteDuringDrawing ==
  [][handleKeyDownDelete
       => \A p \in {activeMeasurement} :
            IF DrawingWithSegments
            THEN /\ polys'[p] = [polys[p] EXCEPT !.segments = Pop(@)]
                 /\ activeMeasurement' = p
                 /\ measurements' = measurements
            ELSE /\ activeMeasurement' = p /\ polys' = polys
                 /\ measurements' = HoveredDeleted]_vars

\* C27, amended: Backspace/Delete removes exactly the last segment of the
\* active polyline, which stays active; with no segment, or no active
\* polyline, and no point selected, the hovered completed shape, if any, is
\* deleted instead and nothing else changes.
C27_DeleteWithoutSelection ==
  [][handleKeyDownDelete
       => \A p \in {activeMeasurement} :
            IF DrawingWithSegments
            THEN /\ polys'[p] = [polys[p] EXCEPT !.segments = Pop(@)]
                 /\ activeMeasurement' = p
                 /\ measurements' = measurements
            ELSE ~Selected
                   => /\ activeMeasurement' = p /\ polys' = polys
                      /\ measurements' = HoveredDeleted]_vars

\* the stored polyline, never pressed on, has left the collection untouched:
\* Delete took it as the hovered shape
C27_Witness ==
  /\ Len(polys) = 1 /\ measurements = <<>> /\ Len(polys[1].segments) >= 1
  /\ hist.click = "none" /\ hist.keyed /\ hist.last = "none"
  /\ tm.hoveredMeasurementId = NoPoly /\ ~Selected

\* C28: switching tools while a polyline is being drawn appends it to the
\* collection exactly when it has at least one segment (else it is
\* discarded); afterwards the line tool has no active polyline, no pending
\* hold timer, and is neither holding for an arc nor closing.
C28_SwitchFinalizes ==
  [][(activeMeasurement # NoPoly /\ setActiveTool)
       => \A p \in {activeMeasurement} :
            /\ measurements' = IF Len(polys[p].segments) >= 1
                               THEN Append(measurements, p) ELSE measurements
            /\ polys'[p] = polys[p]
            /\ activeMeasurement' = NoPoly
            /\ arcDragTimeout' = NoTimeout
            /\ ~isHoldingForArc' /\ ~isClosingSegment']_vars

\* the tool was switched with the button of a normal click still down: the
\* polyline is in the collection and the timer of the click is gone
C28_Witness ==
  /\ activeMeasurement = NoPoly /\ buttonDown
  /\ hist.click = "normal" /\ hist.keyed /\ hist.last = "none"
  /\ InCollection(hist.poly)
  /\ arcDragTimeout = NoTimeout /\ ~isHoldingForArc /\ ~isClosingSegment

\* --------------------------------------------------------- claims C29-C30
\* flattened point j (from 0) of the i-th shape of the collection lies within
\* POINT_HIT_RADIUS of pos
HitNear(i, j, pos) ==
  LET pts == getMeasurementPoints(polys[measurements[i]]) IN
  j + 1 \in 1..Len(pts) /\ distSq(pos, pts[j + 1]) <= POINT_HIT_RADIUS * POINT_HIT_RADIUS

HitShapeNear(i, pos) ==
  \E j \in 0..(Len(getMeasurementPoints(polys[measurements[i]])) - 1) : HitNear(i, j, pos)

\* C29: hit testing returns a flattened point within POINT_HIT_RADIUS of the
\* pointer, taken from the last shape of the collection that has one (the
\* most recently added shape wins) and, in that shape, the first such point;
\* it returns no hit exactly when no flattened point of any shape is within
\* POINT_HIT_RADIUS.
C29_HitTestReverseScan ==
  pm.op = "find"
    => IF \A i \in 1..Len(measurements) : ~HitShapeNear(i, pm.p)
       THEN pm.hit = NoHit
       ELSE /\ pm.hit # NoHit
            /\ \E i \in 1..Len(measurements) :
                 /\ measurements[i] = pm.hit[1].measurementId
                 /\ HitNear(i, pm.hit[1].pointIndex, pm.p)
                 /\ \A j \in 0..(pm.hit[1].pointIndex - 1) : ~HitNear(i, j, pm.p)
                 /\ \A k \in (i + 1)..Len(measurements) : ~HitShapeNear(k, pm.p)

\* both shapes have a point exactly POINT_HIT_RADIUS from the pointer, and the
\* later shape is the one hit
C29_Witness ==
  /\ pm.op = "find" /\ pm.p = Pt(6, 8) /\ Len(measurements) = 2
  /\ HitShapeNear(1, pm.p) /\ HitShapeNear(2, pm.p)
  /\ pm.hit # NoHit /\ pm.hit[1].measurementId = measurements[2]

\* the flattened points of shape id after the step
PointsAfter(id) == getMeasurementPoints(polys'[id])

\* the step of 0.5 along one axis, in half units
HalfSteps == {Pt(-1, 0), Pt(1, 0), Pt(0, -1), Pt(0, 1)}

\* point idx of shape id moved by d, and every other shape stayed as it was
NudgeMoves(d, id, idx) ==
  LET pts == getMeasurementPoints(polys[id])
  IN /\ Len(PointsAfter(id)) = Len(pts)
     /\ PointsAfter(id)[idx + 1] = Pt(pts[idx + 1].x + d.x, pts[idx + 1].y + d.y)
     /\ \A o \in 1..Len(polys) : o # id => polys'[o] = polys[o]
     /\ measurements' = measurements

\* C30 as stated: with a point selected, an arrow key moves exactly that
\* point by the step of 0.5 along one axis and changes no other point of any
\* shape; without a selection an arrow key changes no measurement.
C30_NudgeMovesOnlySelected ==
  [][\A key \in ArrowKeys :
       handleKeyDownArrow(key)
         => IF Selected
            THEN \A id \in {tm.selectedMeasurementId}, idx \in {tm.selectedPointIdx} :
                   \E d \in HalfSteps :
                     /\ NudgeMoves(d, id, idx)
                     /\ \A j \in 1..Len(PointsAfter(id)) :
                          j # idx + 1
                            => PointsAfter(id)[j] = getMeasurementPoints(polys[id])[j]
            ELSE polys' = polys /\ measurements' = measurements]_vars

\* C30, amended: the same for a point of a polyline or rectangle; with the
\* centre of a circle selected the key moves the centre by the step and the
\* circle's edge point along with it, no other shape changing.
C30_NudgeMovesSelected ==
  [][\A key \in ArrowKeys :
       handleKeyDownArrow(key)
         => IF Selected
            THEN \A id \in {tm.selectedMeasurementId}, idx \in {tm.selectedPointIdx} :
                   \E d \in HalfSteps :
                     LET pts == getMeasurementPoints(polys[id])
                     IN /\ NudgeMoves(d, id, idx)
                        /\ \A j \in 1..Len(PointsAfter(id)) :
                             j # idx + 1
                               => PointsAfter(id)[j] =
                                    IF polys[id].kind = "circle"
                                    THEN Pt(pts[j].x + d.x, pts[j].y + d.y)
                                    ELSE pts[j]
            ELSE polys' = polys /\ measurements' = measurements]_vars

\* the selected point of a polyline, in a collection of two shapes, has been
\* nudged half a unit off the anchors
C30_Witness ==
  /\ Selected /\ hist.keyed /\ tm.editsLeft = 0 /\ Len(measurements) = 2
  /\ polys[tm.selectedMeasurementId].kind = "polyline"
  /\ LET q == getMeasurementPoints(polys[tm.selectedMeasurementId])[tm.selectedPointIdx + 1]
     IN q.x % 2 = 1 \/ q.y % 2 = 1

\* --------------------------------------------------------- claims C31
\* no polyline is in the collection twice
NoDuplicates ==
  \A i, j \in 1..Len(measurements) : measurements[i] = measurements[j] => i = j

\* C31: every event completes at most one shape, and the shape it completes
\* was the active polyline and is no longer active afterwards; a polyline in
\* the collection is never the active one, and the collection never holds the
\* same polyline twice.
C31_HandedOffOnce ==
  /\ [](NoDuplicates /\ (activeMeasurement # NoPoly => ~InCollection(activeMeasurement)))
  /\ [][/\ Len(measurements') <= Len(measurements) + 1
        /\ \A id \in 1..Len(polys) :
             (~InCollection(id) /\ InCollection(id)')
               => (activeMeasurement = id /\ activeMeasurement' # id)]_vars

\* two polylines have been drawn and handed off, one after the other
C31_Witness ==
  /\ Len(measurements) = 2 /\ measurements[1] # measurements[2]
  /\ activeMeasurement = NoPoly
  /\ Len(polys[measurements[1]].segments) >= 1 /\ Len(polys[measurements[2]].segments) >= 1

\* --------------------------------------------------------- claims C32-C35
\* three points on one line (two of them may coincide)
Collinear(p1, p2, p3) == Cross(Sub(p2, p1), Sub(p3, p1)) = 0

\* the squared distance from p to the centre (ux/D, uy/D), times D * D
CentreDistSq(c, p) ==
  (p.x * c.D - c.ux) * (p.x * c.D - c.ux) + (p.y * c.D - c.uy) * (p.y * c.D - c.uy)

\* C32: circumscribedCircle returns null exactly for collinear points, and for
\* three points not on a line a centre at the same distance from all three.
C32_CircumscribedCentre ==
  pm.op = "circle"
    => LET p == pm.geo[1].args
           c == pm.geo[1].out
       IN IF Collinear(p[1], p[2], p[3]) THEN c.D = 0
          ELSE /\ c.D # 0
               /\ CentreDistSq(c, p[1]) = CentreDistSq(c, p[2])
               /\ CentreDistSq(c, p[2]) = CentreDistSq(c, p[3])

\* a circle was found through three points of which no two share a row or a
\* column
C32_Witness ==
  /\ pm.op = "circle" /\ pm.geo[1].out.D # 0
  /\ LET p == pm.geo[1].args
     IN /\ p[1].x # p[2].x /\ p[2].x # p[3].x /\ p[1].x # p[3].x
        /\ p[1].y # p[2].y /\ p[2].y # p[3].y /\ p[1].y # p[3].y

\* C33: computeTangentArcBulge returns null when start and end coincide and
\* when end lies on the line through start along the tangent, ahead or
\* behind; in every other case it returns a bulge.
C33_TangentArcBulgeNull ==
  pm.op = "bulge"
    => LET segStart == pm.geo[1].args[1]
           segEnd == pm.geo[1].args[2]
           tangentDir == pm.geo[1].args[3]
       IN (pm.geo[1].out = NoBulge)
            <=> (segStart = segEnd \/ Cross(Sub(segEnd, segStart), tangentDir) = 0)

\* null for an end behind start on a skew tangent line
C33_Witness ==
  /\ pm.op = "bulge" /\ pm.geo[1].out = NoBulge
  /\ LET a == pm.geo[1].args
     IN /\ a[1] # a[2] /\ a[3].x # 0 /\ a[3].y # 0
        /\ Dot(Sub(a[2], a[1]), a[3]) < 0

\* C34: the circle through start, the bulge of computeTangentArcBulge and end
\* is travelled, at start, along the tangent direction that was passed in.
C34_TangentArcSelfConsistent ==
  pm.op = "arcpoint"
    => LET segStart == pm.geo[1].args[1]
           segEnd == pm.geo[1].args[2]
           tangentDir == pm.geo[1].args[3]
           c == circumscribedCircle(segStart, pm.geo[1].out[1], segEnd)
           \* radius at start, turned a quarter to the side of the sweep
           along == Pt(-(segStart.y * c.D - c.uy), segStart.x * c.D - c.ux)
       IN /\ c.D # 0
          /\ Cross(along, tangentDir) = 0
          /\ Dot(along, tangentDir) > 0

\* an arc of more than half a turn leaving along a skew tangent
C34_Witness ==
  /\ pm.op = "arcpoint"
  /\ LET a == pm.geo[1].args
     IN /\ a[3].x # 0 /\ a[3].y # 0
        /\ Dot(Sub(a[2], a[1]), a[3]) < 0
        /\ Cross(Sub(a[2], a[1]), a[3]) # 0

\* the same direction
SameAngle(a, b) == (a - b) % Turn = 0

\* how far to turn counter-clockwise from a to reach b, under a full turn
CcwOffset(a, b) == CHOOSE k \in 0..(Turn - 1) : SameAngle(a + k, b)

\* C35: angleSweepThrough is the counter-clockwise offset of a3 from a1, a
\* positive number, when a2 is met earlier than a3 going counter-clockwise
\* from a1, and that offset less a full turn otherwise; the sweep ends at a3
\* and meets a2 on its way.
C35_SweepThrough ==
  pm.op = "sweep"
    => LET a1 == pm.geo[1].args[1]
           a2 == pm.geo[1].args[2]
           a3 == pm.geo[1].args[3]
           sweep == pm.geo[1].out
       IN /\ IF CcwOffset(a1, a2) < CcwOffset(a1, a3)
             THEN sweep = CcwOffset(a1, a3) /\ sweep > 0
             ELSE sweep = CcwOffset(a1, a3) - Turn
          /\ SameAngle(a1 + sweep, a3)
          /\ \E k \in 0..Abs(sweep) :
               SameAngle(a1 + (IF sweep < 0 THEN -k ELSE k), a2)

\* a clockwise sweep from an angle below zero, with all three angles apart
C35_Witness ==
  /\ pm.op = "sweep" /\ pm.geo[1].out < 0
  /\ LET a == pm.geo[1].args
     IN /\ a[1] < 0 /\ a[2] < a[1]
        /\ ~SameAngle(a[1], a[2]) /\ ~SameAngle(a[2], a[3]) /\ ~SameAngle(a[1], a[3])

\* ------------------------------------------------------------- claim C36
\* C36: a selected point belongs to a measurement of the collection and its
\* index is one of that measurement's flattened point indices.
C36_SelectionValid ==
  Selected
    => /\ InCollection(tm.selectedMeasurementId)
       /\ tm.selectedPointIdx \in
            0..(Len(getMeasurementPoints(polys[tm.selectedMeasurementId])) - 1)

\* ------------------------------------------------------------- claim C37
\* C37: once the measurements stop changing, the URL hash comes to encode
\* their latest version and stays so; no change made while an update is
\* pending or in flight is missed for good.
C37_HashReachesLatest == <>[](pm.sync.hash = pm.sync.saveVersion)

\* ------------------------------------------------------------- claim C38
\* C38: every closed polyline of the collection has at least 2 segments.
C38_ClosedHasTwoSegments ==
  \A i \in 1..Len(measurements) :
    polys[measurements[i]].closed => Len(polys[measurements[i]].segments) >= 2

\* ------------------------------------------------------- claims C39-C40
\* C39: the close-snap indicator is shown only while the active polyline has
\* at least 2 segments and is not in its closing segment.
C39_RingNeedsTwoSegments ==
  getDrawState.closeSnapRing # NoPoint
    => /\ activeMeasurement # NoPoly
       /\ Len(polys[activeMeasurement].segments) >= 2
       /\ ~isClosingSegment

\* C40: while the closing flag is set there is an active polyline, and its
\* last segment ends at its start.
C40_ClosingFlagHasClosingSegment ==
  isClosingSegment
    => /\ activeMeasurement # NoPoly
       /\ Len(polys[activeMeasurement].segments) > 0
       /\ polys[activeMeasurement].segments[Len(polys[activeMeasurement].segments)].end
            = polys[activeMeasurement].start
====
